---- MODULE Spec2Model ----
\* Memory subsystem of AOS: the memories table and its FTS5 index (db.ts),
\* the retrieval composer, the turn recorder and the decay sweep (memory.ts).
\*
\* Salience is a REAL column; it is modelled in fixed point, Scale units per
\* 1.0, and a product is rounded to the nearest unit as IEEE arithmetic
\* rounds to the nearest double.  Rates are percentages (98 is 0.98).
\* Text is a sequence of one-character strings.
EXTENDS Integers, Sequences, FiniteSets, TLC

\* ---------------------------------------------------------------- bounds
MaxId == 2
MaxTime == 259200
MaxOps == 2
MaxSurfacings == 1
MaxSweeps == 120
MaxRuns == 2

\* ------------------------------------------------------------- constants
Scale == 100000
InitialSalience == 1 * Scale
TouchBoost == Scale \div 10
SalienceCap == 5 * Scale
GraceWindow == 86400
\* the clock is read one grace window after time 0 and, from then on, two
\* grace windows apart: a row is seen younger than, exactly at and older
\* than the grace window
TickStep == 2 * GraceWindow
DefaultDecayRate == 98
DefaultMinSalience == Scale \div 10
MEMORY_DECAY_RATE == DefaultDecayRate
MEMORY_MIN_SALIENCE == DefaultMinSalience
FtsLimit == 3
RecentLimit == 5
DisplayLimit == 10
MinTurnLength == 20

ChatIds == {"123", "456"}
Sectors == {"semantic", "episodic"}
\* (decayRate, minSalience) handed to decayMemories: the defaults, a halving
\* sweep with floor 0.5 and a sweep that does not decay with floor 1.0
DecayArgs ==
    { << DefaultDecayRate, DefaultMinSalience >>,
      << 50, Scale \div 2 >>,
      << 100, Scale >> }

\* ------------------------------------------------------------------ text
\* 'I prefer dark mode in every app' (31 characters)
MsgPrefer ==
    << "I", " ", "p", "r", "e", "f", "e", "r", " ", "d", "a", "r", "k", " ", "m", "o", "d", "e", " ", "i", "n", " ", "e", "v", "e", "r", "y", " ", "a", "p", "p" >>
\* "What's the weather tomorrow?" (28 characters)
MsgWeather ==
    << "W", "h", "a", "t", "'", "s", " ", "t", "h", "e", " ", "w", "e", "a", "t", "h", "e", "r", " ", "t", "o", "m", "o", "r", "r", "o", "w", "?" >>
\* 'hello' (5 characters)
MsgShort ==
    << "h", "e", "l", "l", "o" >>
\* '/newchat start a fresh conversation' (35 characters)
MsgSlash ==
    << "/", "n", "e", "w", "c", "h", "a", "t", " ", "s", "t", "a", "r", "t", " ", "a", " ", "f", "r", "e", "s", "h", " ", "c", "o", "n", "v", "e", "r", "s", "a", "t", "i", "o", "n" >>
\* '!!@@##$$' (8 characters)
MsgGarbage ==
    << "!", "!", "@", "@", "#", "#", "$", "$" >>
\* 'Noted, dark mode it is.' (23 characters)
ReplyLong ==
    << "N", "o", "t", "e", "d", ",", " ", "d", "a", "r", "k", " ", "m", "o", "d", "e", " ", "i", "t", " ", "i", "s", "." >>
\* 'ok' (2 characters)
ReplyShort ==
    << "o", "k" >>
\* 'dark mode AND every app' (23 characters)
MsgAnd ==
    << "d", "a", "r", "k", " ", "m", "o", "d", "e", " ", "A", "N", "D", " ", "e", "v", "e", "r", "y", " ", "a", "p", "p" >>
\* 'remember the milk ok' (20 characters)
MsgTwenty ==
    << "r", "e", "m", "e", "m", "b", "e", "r", " ", "t", "h", "e", " ", "m", "i", "l", "k", " ", "o", "k" >>
\* 'remember the milk now' (21 characters)
MsgTwentyOne ==
    << "r", "e", "m", "e", "m", "b", "e", "r", " ", "t", "h", "e", " ", "m", "i", "l", "k", " ", "n", "o", "w" >>
\* 'I always remember that.' (23 characters)
ReplySignal ==
    << "I", " ", "a", "l", "w", "a", "y", "s", " ", "r", "e", "m", "e", "m", "b", "e", "r", " ", "t", "h", "a", "t", "." >>
\* 'Sure, I will do that' (20 characters)
ReplyTwenty ==
    << "S", "u", "r", "e", ",", " ", "I", " ", "w", "i", "l", "l", " ", "d", "o", " ", "t", "h", "a", "t" >>
\* 'dark mode' (9 characters)
QueryDark ==
    << "d", "a", "r", "k", " ", "m", "o", "d", "e" >>
\* 'something else' (14 characters)
QueryOther ==
    << "s", "o", "m", "e", "t", "h", "i", "n", "g", " ", "e", "l", "s", "e" >>

\* '' (0 characters)
QueryEmpty ==
    << >>
\* '  ' (2 characters)
QueryBlank ==
    << " ", " " >>
\* 'weath tom' (9 characters)
QueryWeath ==
    << "w", "e", "a", "t", "h", " ", "t", "o", "m" >>

\* (content, sector) handed to saveMemory
SaveArgs == { << MsgPrefer, "semantic" >>, << MsgWeather, "episodic" >> }
UserMsgs ==
    {MsgPrefer, MsgWeather, MsgShort, MsgSlash, MsgAnd, MsgTwenty,
     MsgTwentyOne}
AssistantMsgs == {ReplyLong, ReplyShort, ReplySignal, ReplyTwenty}
Queries == {QueryDark, QueryOther, MsgGarbage}
\* queries handed to searchMemories alone
SearchQueries == Queries \cup {QueryEmpty, QueryBlank, QueryWeath}

\* what may come before a word of an utterance: nothing, a space, a comma,
\* a letter, an underscore, a hyphen
UtteranceLefts ==
    { << >>,
      << "w", "e", "l", "l", " " >>,
      << "w", "e", "l", "l", ",", " " >>,
      << "w", "e", "l", "l" >>,
      << "w", "e", "l", "l", "_" >>,
      << "w", "e", "l", "l", "-" >> }

\* the signals in several casings, and words that are none
UtteranceWords ==
    { << "m", "y" >>,
      << "M", "Y" >>,
      << "i", " ", "a", "m" >>,
      << "I", " ", "A", "m" >>,
      << "i", "'", "m" >>,
      << "I", "'", "M" >>,
      << "i", " ", "p", "r", "e", "f", "e", "r" >>,
      << "I", " ", "P", "R", "E", "F", "E", "R" >>,
      << "r", "e", "m", "e", "m", "b", "e", "r" >>,
      << "R", "e", "m", "e", "m", "b", "e", "r" >>,
      << "a", "l", "w", "a", "y", "s" >>,
      << "n", "e", "v", "e", "r" >>,
      << "N", "E", "V", "E", "R" >>,
      << "m", "e" >>,
      << "m", "i", "n", "e" >>,
      << "i", " ", " ", "a", "m" >>,
      << "i", "m" >>,
      << "p", "r", "e", "f", "e", "r" >>,
      << "f", "o", "r", "g", "e", "t" >> }

\* what may follow: a space, a letter, a comma, an underscore, a digit (each
\* makes the utterance longer than 20 characters)
UtteranceRights ==
    { << " ", "t", "h", "i", "n", "g", " ", "t", "o", " ", "d", "o", " ", "f", "o", "r", " ", "t", "o", "d", "a", "y" >>,
      << "t", "h", "i", "n", "g", " ", "t", "o", " ", "d", "o", " ", "f", "o", "r", " ", "t", "o", "d", "a", "y" >>,
      << ",", " ", "t", "h", "i", "n", "g", " ", "t", "o", " ", "d", "o", " ", "f", "o", "r", " ", "t", "o", "d", "a", "y" >>,
      << "_", "t", "h", "i", "n", "g", " ", "t", "o", " ", "d", "o", " ", "f", "o", "r", " ", "t", "o", "d", "a", "y" >>,
      << "2", " ", "t", "h", "i", "n", "g", " ", "t", "o", " ", "d", "o", " ", "f", "o", "r", " ", "t", "o", "d", "a", "y" >> }

\* the utterances saveConversationTurn is applied to
Utterances ==
    {l \o w \o r : l \in UtteranceLefts, w \in UtteranceWords,
                    r \in UtteranceRights}
        \cup {MsgPrefer, MsgWeather}

LowerCase ==
    {"a", "b", "c", "d", "e", "f", "g", "h", "i", "j", "k", "l", "m",
     "n", "o", "p", "q", "r", "s", "t", "u", "v", "w", "x", "y", "z"}
UpperCase ==
    {"A", "B", "C", "D", "E", "F", "G", "H", "I", "J", "K", "L", "M",
     "N", "O", "P", "Q", "R", "S", "T", "U", "V", "W", "X", "Y", "Z"}
Digits == {"0", "1", "2", "3", "4", "5", "6", "7", "8", "9"}
Whitespace == {" "}
AlphaNum == LowerCase \cup UpperCase \cup Digits
\* \w of a JavaScript regular expression
WordChar == AlphaNum \cup {"_"}

ToLower(c) ==
    CASE c = "A" -> "a" [] c = "B" -> "b" [] c = "C" -> "c" [] c = "D" -> "d"
      [] c = "E" -> "e" [] c = "F" -> "f" [] c = "G" -> "g" [] c = "H" -> "h"
      [] c = "I" -> "i" [] c = "J" -> "j" [] c = "K" -> "k" [] c = "L" -> "l"
      [] c = "M" -> "m" [] c = "N" -> "n" [] c = "O" -> "o" [] c = "P" -> "p"
      [] c = "Q" -> "q" [] c = "R" -> "r" [] c = "S" -> "s" [] c = "T" -> "t"
      [] c = "U" -> "u" [] c = "V" -> "v" [] c = "W" -> "w" [] c = "X" -> "x"
      [] c = "Y" -> "y" [] c = "Z" -> "z" [] OTHER -> c

LowerText(s) == [i \in 1..Len(s) |-> ToLower(s[i])]

\* the maximal runs of characters of s that are in keep, in order
RECURSIVE Runs(_, _, _, _)
Runs(s, keep, i, cur) ==
    IF i > Len(s)
    THEN IF cur = << >> THEN << >> ELSE << cur >>
    ELSE IF s[i] \in keep
         THEN Runs(s, keep, i + 1, Append(cur, s[i]))
         ELSE (IF cur = << >> THEN << >> ELSE << cur >>)
              \o Runs(s, keep, i + 1, << >>)

IsPrefixOf(p, w) ==
    /\ Len(p) <= Len(w)
    /\ \A i \in 1..Len(p) : p[i] = w[i]

SeqRange(s) == {s[i] : i \in 1..Len(s)}

Take(s, n) == IF Len(s) <= n THEN s ELSE SubSeq(s, 1, n)

\* every ordering of the finite set S, as a sequence without repetition
RECURSIVE Orderings(_)
Orderings(S) ==
    IF S = {}
    THEN {<< >>}
    ELSE UNION {{<< x >> \o p : p \in Orderings(S \ {x})} : x \in S}

\* the orderings of S by key descending: ORDER BY key DESC, the elements of
\* equal key in any order
RECURSIVE OrderedDesc(_, _)
OrderedDesc(S, key) ==
    IF S = {}
    THEN {<< >>}
    ELSE UNION {{<< x >> \o p : p \in OrderedDesc(S \ {x}, key)} :
                    x \in {y \in S : \A z \in S : key[y] >= key[z]}}

\* ----------------------------------------------------------------- state
VARIABLES
    memories,      \* table memories: id -> row
    memories_fts,  \* FTS5 table memories_fts: rowid -> indexed content
    seq,           \* sqlite_sequence of memories (AUTOINCREMENT): last id given
    now,           \* Math.floor(Date.now() / 1000)
    ret,           \* the last call of the API and what it returned
    ops,           \* number of salience-changing calls made so far
    turn,          \* the handleMessage call in flight and where it stands
    sweep,         \* where decayMemories stands between its two statements,
                   \* and how many sweeps the timer has run
    base,          \* the store a touch and a sweep started from, and the
                   \* row the touch is for
    sessions,      \* table sessions: the chats that have a row
    proc,          \* the bot process: where main and shutdown stand, what
                   \* they hold (lock, database, timers, bot), the allow-list
    tasks          \* table scheduled_tasks: id -> row

vars ==
    << memories, memories_fts, seq, now, ret, ops, turn, sweep, base,
       sessions, proc, tasks >>

\* the process and the scheduler's table, which no store call changes
procVars == << proc, tasks >>

\* what the calls on the store leave alone
handlerVars == << turn, sweep, base, sessions, procVars >>

Ids == 1..MaxId

NoRet == [op |-> "init", chat |-> "", id |-> 0, ids |-> << >>,
          out |-> << >>, rate |-> 0, min |-> 0, n1 |-> 0, n2 |-> 0]

Returned(op, chat, id, ids, out, rate, min, n1, n2) ==
    [op |-> op, chat |-> chat, id |-> id, ids |-> ids, out |-> out,
     rate |-> rate, min |-> min, n1 |-> n1, n2 |-> n2]

\* ------------------------------------------------------- index triggers
\* an insert trigger that leaves the index alone
memories_ai_Missing(fts, id, content) == fts

\* memories_ai: AFTER INSERT ON memories
memories_ai(fts, id, content) ==
    [i \in DOMAIN fts \cup {id} |-> IF i = id THEN content ELSE fts[i]]

\* a delete trigger that leaves the index alone
memories_ad_Missing(fts, deleted) == fts

\* memories_ad: AFTER DELETE ON memories, for every deleted row
memories_ad(fts, deleted) ==
    [i \in DOMAIN fts \ deleted |-> fts[i]]

\* ------------------------------------------------------------ saveMemory
InsertRow(mem, id, chatId, content, sector, t) ==
    [i \in DOMAIN mem \cup {id} |->
        IF i = id
        THEN [chat_id |-> chatId, content |-> content, sector |-> sector,
              salience |-> InitialSalience, created_at |-> t,
              accessed_at |-> t]
        ELSE mem[i]]

\* an insert into a table declared without AUTOINCREMENT: the new rowid is
\* one above the largest rowid stored
SaveMemory_ReuseRowid(chatId, content, sector) ==
    LET id == IF DOMAIN memories = {} THEN 1
              ELSE 1 + CHOOSE m \in DOMAIN memories :
                           \A j \in DOMAIN memories : j <= m
    IN  /\ id <= MaxId
        /\ memories' = InsertRow(memories, id, chatId, content, sector, now)
        /\ memories_fts' = memories_ai(memories_fts, id, content)
        /\ seq' = IF id > seq THEN id ELSE seq
        /\ ret' = Returned("saveMemory", chatId, id, << >>, << >>, 0, 0, 0, 0)
        /\ UNCHANGED << now, ops >>

SaveMemory(chatId, content, sector) ==
    /\ seq < MaxId
    /\ memories' = InsertRow(memories, seq + 1, chatId, content, sector, now)
    /\ memories_fts' = memories_ai(memories_fts, seq + 1, content)
    /\ seq' = seq + 1
    /\ ret' = Returned("saveMemory", chatId, seq + 1, << >>, << >>, 0, 0, 0, 0)
    /\ UNCHANGED << now, ops >>

\* --------------------------------------------------------- searchMemories
Sanitize(query) == SelectSeq(query, LAMBDA c : c \in AlphaNum \cup Whitespace)

\* sanitized.split(/\s+/).filter(Boolean).map((w) => w + '*')
FtsQuery(query) ==
    LET words == Runs(Sanitize(query), AlphaNum, 1, << >>)
    IN  [i \in 1..Len(words) |-> Append(words[i], "*")]

\* the tokens the unicode61 tokenizer indexes for a content
DocTokens(content) == SeqRange(Runs(LowerText(content), AlphaNum, 1, << >>))

\* a MATCH of whole tokens: the query terms without their *
FtsMatch_WholeToken(content, ftsQuery) ==
    \A i \in 1..Len(ftsQuery) :
        LowerText(SubSeq(ftsQuery[i], 1, Len(ftsQuery[i]) - 1))
            \in DocTokens(content)

\* MATCH of a query of prefix terms: every term is a prefix of some token
FtsMatch(content, ftsQuery) ==
    \A i \in 1..Len(ftsQuery) :
        LET term == LowerText(SubSeq(ftsQuery[i], 1, Len(ftsQuery[i]) - 1))
        IN  \E tok \in DocTokens(content) : IsPrefixOf(term, tok)

\* the FTS5 query parser reads the barewords AND, OR and NOT, in upper case,
\* as operators: followed by the * of a prefix term they are a syntax error
FtsSyntaxError(ftsQuery) ==
    \E i \in 1..Len(ftsQuery) :
        SubSeq(ftsQuery[i], 1, Len(ftsQuery[i]) - 1)
            \in {<< "A", "N", "D" >>, << "O", "R" >>, << "N", "O", "T" >>}

\* the texts that are ever stored and the texts that are ever searched for;
\* MATCH is tabulated over them (the tables are evaluated once)
StoredTexts == {a[1] : a \in SaveArgs} \cup UserMsgs \cup AssistantMsgs

SearchedTexts == SearchQueries \cup UserMsgs

MatchTable ==
    [t \in StoredTexts |->
        [q \in SearchedTexts |-> FtsMatch(t, FtsQuery(q))]]

EmptyQuery == [q \in SearchedTexts |-> FtsQuery(q) = << >>]

QueryFails == [q \in SearchedTexts |-> FtsSyntaxError(FtsQuery(q))]

\* db.prepare(..).all(ftsQuery, chatId, limit): it throws on a query FTS5
\* cannot parse, and otherwise returns the matching rows of the owner;
\* ORDER BY rank is bm25, any order of the matching rows is allowed for
FtsStatement(chatId, query, limit) ==
    IF QueryFails[query]
    THEN {[threw |-> TRUE, rows |-> << >>]}
    ELSE LET hits == {i \in DOMAIN memories \cap DOMAIN memories_fts :
                        /\ MatchTable[memories_fts[i]][query]
                        /\ memories[i].chat_id = chatId}
         IN  {[threw |-> FALSE, rows |-> Take(p, limit)] :
                 p \in Orderings(hits)}

\* searchMemories without its try/catch: a throwing statement leaves it
\* with no result to return
SearchMemories_NoCatch(chatId, query, limit) ==
    IF EmptyQuery[query]
    THEN {<< >>}
    ELSE {o.rows : o \in {x \in FtsStatement(chatId, query, limit) :
                              ~x.threw}}

\* searchMemories without if (!sanitized) return []
SearchMemories_NoEmptyGuard(chatId, query, limit) ==
    {IF o.threw THEN << >> ELSE o.rows :
        o \in FtsStatement(chatId, query, limit)}

\* the result lists searchMemories may return; catch { return [] }
SearchMemories(chatId, query, limit) ==
    IF EmptyQuery[query]
    THEN {<< >>}
    ELSE {IF o.threw THEN << >> ELSE o.rows :
             o \in FtsStatement(chatId, query, limit)}

\* ------------------------------------------------------ getRecentMemories
\* the recency query without its WHERE chat_id = ?
GetRecentMemories_AnyOwner(chatId, limit) ==
    {Take(p, limit) : p \in
        OrderedDesc(DOMAIN memories,
                    [i \in DOMAIN memories |-> memories[i].accessed_at])}

\* ORDER BY accessed_at DESC; rows of equal accessed_at come in any order
GetRecentMemories(chatId, limit) ==
    LET own == {i \in DOMAIN memories : memories[i].chat_id = chatId}
    IN  {Take(p, limit) : p \in
            OrderedDesc(own, [i \in own |-> memories[i].accessed_at])}

\* -------------------------------------------------- getMemoriesForDisplay
GetMemoriesForDisplay(chatId, limit) ==
    LET own == {i \in DOMAIN memories : memories[i].chat_id = chatId}
    IN  {Take(p, limit) : p \in
            OrderedDesc(own, [i \in own |-> memories[i].created_at])}

\* ----------------------------------------------------------- touchMemory
Min(a, b) == IF a <= b THEN a ELSE b

\* a touch that does not add the boost
TouchSalience_NoBoost(s) == Min(s, SalienceCap)

\* the boost without the MIN(.., 5.0)
TouchSalience_NoCap(s) == s + TouchBoost

\* a touch that sets the salience back to that of a new row
TouchSalience_Resets(s) == InitialSalience

TouchSalience(s) == Min(s + TouchBoost, SalienceCap)

\* a touch that forgets to set accessed_at
TouchRow_KeepAccessed(mem, id, t) ==
    [i \in DOMAIN mem |->
        IF i = id
        THEN [mem[i] EXCEPT !.salience = TouchSalience(mem[i].salience)]
        ELSE mem[i]]

\* a touch that writes a row under the id when none is stored
TouchRow_Upsert(mem, id, t) ==
    [i \in DOMAIN mem \cup {id} |->
        IF i = id
        THEN IF i \in DOMAIN mem
             THEN [mem[i] EXCEPT !.accessed_at = t,
                                 !.salience = TouchSalience(mem[i].salience)]
             ELSE [chat_id |-> "123", content |-> << >>,
                   sector |-> "episodic", salience |-> InitialSalience,
                   created_at |-> t, accessed_at |-> t]
        ELSE mem[i]]

\* UPDATE memories SET accessed_at = ?, salience = MIN(..) WHERE id = ?
TouchRow(mem, id, t) ==
    [i \in DOMAIN mem |->
        IF i = id
        THEN [mem[i] EXCEPT !.accessed_at = t,
                            !.salience = TouchSalience(mem[i].salience)]
        ELSE mem[i]]

TouchMemory(id) ==
    /\ ops < MaxOps
    /\ memories' = TouchRow(memories, id, now)
    /\ ops' = ops + 1
    /\ ret' = Returned("touchMemory", "", id, << >>, << >>, 0, 0, 0, 0)
    /\ UNCHANGED << memories_fts, seq, now >>

\* --------------------------------------------------------- decayMemories
\* a multiplication that leaves the salience as it was
DecaySalience_NoDecay(s, rate) == s

DecaySalience(s, rate) == (s * rate + 50) \div 100

\* a decay pass without its WHERE: every row is decayed
DecayPass_AllRows(mem, rate, oneDayAgo) ==
    [i \in DOMAIN mem |->
        [mem[i] EXCEPT !.salience = DecaySalience(mem[i].salience, rate)]]

\* a decay pass that takes the boundary in: created_at <= ?
DecayPass_Inclusive(mem, rate, oneDayAgo) ==
    [i \in DOMAIN mem |->
        IF mem[i].created_at <= oneDayAgo
        THEN [mem[i] EXCEPT !.salience = DecaySalience(mem[i].salience, rate)]
        ELSE mem[i]]

\* a decay pass that also stamps the rows it decays as accessed
DecayPass_Accessed(mem, rate, oneDayAgo) ==
    [i \in DOMAIN mem |->
        IF mem[i].created_at < oneDayAgo
        THEN [mem[i] EXCEPT !.salience = DecaySalience(mem[i].salience, rate),
                            !.accessed_at = oneDayAgo + GraceWindow]
        ELSE mem[i]]

\* UPDATE memories SET salience = salience * ? WHERE created_at < ?
DecayPass(mem, rate, oneDayAgo) ==
    [i \in DOMAIN mem |->
        IF mem[i].created_at < oneDayAgo
        THEN [mem[i] EXCEPT !.salience = DecaySalience(mem[i].salience, rate)]
        ELSE mem[i]]

\* a prune that also deletes the rows at the floor: salience <= ?
PrunePass_Inclusive(mem, minSalience) ==
    [i \in {j \in DOMAIN mem : ~(mem[j].salience <= minSalience)} |-> mem[i]]

\* DELETE FROM memories WHERE salience < ?
PrunePass(mem, minSalience) ==
    [i \in {j \in DOMAIN mem : ~(mem[j].salience < minSalience)} |-> mem[i]]

\* the two statements of decayMemories and the counts it returns
SweepResult(decayRate, minSalience) ==
    LET oneDayAgo == now - GraceWindow
        decayed == DecayPass(memories, decayRate, oneDayAgo)
        kept == PrunePass(decayed, minSalience)
        gone == DOMAIN decayed \ DOMAIN kept
    IN  [memories |-> kept,
         fts |-> memories_ad(memories_fts, gone),
         decayed |-> Cardinality({i \in DOMAIN memories :
                                    memories[i].created_at < oneDayAgo}),
         deleted |-> Cardinality(gone)]

DecayMemories(decayRate, minSalience) ==
    LET r == SweepResult(decayRate, minSalience)
    IN  /\ ops < MaxOps
        /\ memories' = r.memories
        /\ memories_fts' = r.fts
        /\ ops' = ops + 1
        /\ ret' = Returned("decayMemories", "", 0, << >>, << >>,
                           decayRate, minSalience, r.decayed, r.deleted)
        /\ UNCHANGED << seq, now >>

\* ---------------------------------------------------------- runDecaySweep
\* the sweep of the running program: at start and on every interval tick
RunDecaySweep ==
    LET r == SweepResult(MEMORY_DECAY_RATE, MEMORY_MIN_SALIENCE)
    IN  /\ memories' = r.memories
        /\ memories_fts' = r.fts
        /\ ret' = Returned("runDecaySweep", "", 0, << >>, << >>,
                           MEMORY_DECAY_RATE, MEMORY_MIN_SALIENCE,
                           r.decayed, r.deleted)
        /\ UNCHANGED << seq, now, ops >>

\* ------------------------------------------------------ deleteAllMemories
\* DELETE FROM memories WHERE chat_id = ?
DeleteAllMemories(chatId) ==
    LET gone == {i \in DOMAIN memories : memories[i].chat_id = chatId}
    IN  /\ memories' = [i \in DOMAIN memories \ gone |-> memories[i]]
        /\ memories_fts' = memories_ad(memories_fts, gone)
        /\ ret' = Returned("deleteAllMemories", chatId, 0, << >>, << >>,
                           0, 0, 0, 0)
        /\ UNCHANGED << seq, now, ops >>

\* ---------------------------------------------------- buildMemoryContext
\* the two loops over ftsResults and recentResults with the seen set
RECURSIVE DedupById(_, _)
DedupById(rows, seen) ==
    IF rows = << >>
    THEN << >>
    ELSE IF Head(rows) \in seen
         THEN DedupById(Tail(rows), seen)
         ELSE << Head(rows) >> \o DedupById(Tail(rows), seen \cup {Head(rows)})

\* the merge without the seen set
Combine_NoDedup(ftsResults, recentResults) == ftsResults \o recentResults

\* a merge that drops the recency results
Combine_SearchOnly(ftsResults, recentResults) == DedupById(ftsResults, {})

\* a merge that puts the recency results first
Combine_RecentFirst(ftsResults, recentResults) ==
    DedupById(recentResults \o ftsResults, {})

Combine(ftsResults, recentResults) ==
    DedupById(ftsResults \o recentResults, {})

\* a loop that touches the first selected memory only
TouchAll_FirstOnly(mem, combined, t) ==
    IF combined = << >> THEN mem ELSE TouchRow(mem, Head(combined), t)

\* for (const m of combined) touchMemory(m.id)
RECURSIVE TouchAll(_, _, _)
TouchAll(mem, combined, t) ==
    IF combined = << >>
    THEN mem
    ELSE TouchAll(TouchRow(mem, Head(combined), t), Tail(combined), t)

\* one line of the context block: `- ${m.content} (${m.sector})`
ContextLines(combined) ==
    [i \in 1..Len(combined) |->
        [content |-> memories[combined[i]].content,
         sector |-> memories[combined[i]].sector]]

\* what buildMemoryContext may select, one per pair of query results: the
\* combined list and the lengths of the two result lists it came from
Combined(chatId, userMessage) ==
    {[ids |-> Combine(ftsResults, recentResults),
      fts |-> Len(ftsResults), recent |-> Len(recentResults)] :
        ftsResults \in SearchMemories(chatId, userMessage, FtsLimit),
        recentResults \in GetRecentMemories(chatId, RecentLimit)}

BuildMemoryContext(chatId, userMessage) ==
    \E c \in Combined(chatId, userMessage) :
        IF c.ids = << >>
        THEN /\ ret' = Returned("buildMemoryContext", chatId, 0, << >>,
                                << >>, 0, 0, c.fts, c.recent)
             /\ UNCHANGED << memories, memories_fts, seq, now, ops >>
        ELSE /\ ops < MaxOps
             /\ memories' = TouchAll(memories, c.ids, now)
             /\ ops' = ops + 1
             /\ ret' = Returned("buildMemoryContext", chatId, 0, c.ids,
                                ContextLines(c.ids), 0, 0, c.fts, c.recent)
             /\ UNCHANGED << memories_fts, seq, now >>

\* --------------------------------------------------- saveConversationTurn
\* the alternatives of SEMANTIC_SIGNALS, lower case
SEMANTIC_SIGNALS ==
    { << "m", "y" >>, << "i", " ", "a", "m" >>, << "i", "'", "m" >>,
      << "i", " ", "p", "r", "e", "f", "e", "r" >>,
      << "r", "e", "m", "e", "m", "b", "e", "r" >>,
      << "a", "l", "w", "a", "y", "s" >>, << "n", "e", "v", "e", "r" >> }

\* the test without the i flag
SemanticSignalTest_CaseSensitive(msg) ==
    \E sig \in SEMANTIC_SIGNALS :
    \E i \in 1..Len(msg) :
        /\ i + Len(sig) - 1 <= Len(msg)
        /\ SubSeq(msg, i, i + Len(sig) - 1) = sig
        /\ (i = 1 \/ msg[i - 1] \notin WordChar)
        /\ (i + Len(sig) > Len(msg) \/ msg[i + Len(sig)] \notin WordChar)

\* /\b(..)\b/i: an alternative occurs with no word character on either side
SemanticSignalTest(msg) ==
    \E sig \in SEMANTIC_SIGNALS :
    \E i \in 1..Len(msg) :
        /\ i + Len(sig) - 1 <= Len(msg)
        /\ LowerText(SubSeq(msg, i, i + Len(sig) - 1)) = sig
        /\ (i = 1 \/ msg[i - 1] \notin WordChar)
        /\ (i + Len(sig) > Len(msg) \/ msg[i + Len(sig)] \notin WordChar)

ClassifySector(userMsg) ==
    IF SemanticSignalTest(userMsg) THEN "semantic" ELSE "episodic"

StartsWithSlash(msg) == Len(msg) >= 1 /\ msg[1] = "/"

\* a skip test that lets an utterance of exactly 20 characters through
SkipTurn_Exclusive(userMsg) ==
    Len(userMsg) < MinTurnLength \/ StartsWithSlash(userMsg)

SkipTurn(userMsg) == Len(userMsg) <= MinTurnLength \/ StartsWithSlash(userMsg)

\* a length test that stores a reply of exactly 20 characters
SaveReply_Inclusive(assistantMsg) == Len(assistantMsg) >= MinTurnLength

SaveReply(assistantMsg) == Len(assistantMsg) > MinTurnLength

\* the decisions of saveConversationTurn tabulated over its inputs
TurnTable ==
    [u \in UserMsgs \cup Utterances |->
        [skip |-> SkipTurn(u), sector |-> ClassifySector(u)]]

ReplyTable == [a \in AssistantMsgs |-> SaveReply(a)]

SaveConversationTurn(chatId, userMsg, assistantMsg) ==
    IF TurnTable[userMsg].skip
    THEN /\ ret' = Returned("saveConversationTurn", chatId, 0, << >>, << >>,
                            0, 0, 0, 0)
         /\ UNCHANGED << memories, memories_fts, seq, now, ops >>
    ELSE LET n == IF ReplyTable[assistantMsg] THEN 2 ELSE 1
             mem1 == InsertRow(memories, seq + 1, chatId, userMsg,
                               TurnTable[userMsg].sector, now)
             fts1 == memories_ai(memories_fts, seq + 1, userMsg)
         IN  /\ seq + n <= MaxId
             /\ memories' = IF n = 2
                            THEN InsertRow(mem1, seq + 2, chatId, assistantMsg,
                                           "episodic", now)
                            ELSE mem1
             /\ memories_fts' = IF n = 2
                                THEN memories_ai(fts1, seq + 2, assistantMsg)
                                ELSE fts1
             /\ seq' = seq + n
             /\ ret' = Returned("saveConversationTurn", chatId, seq + 1,
                                << >>, << >>, 0, 0, n, 0)
             /\ UNCHANGED << now, ops >>

\* ----------------------------------------------------------------- clock
Tick ==
    /\ now + TickStep <= MaxTime
    /\ now' = now + TickStep
    /\ UNCHANGED << memories, memories_fts, seq, ret, ops >>

\* --------------------------------------------------------- specification
\* salience of a row that was inserted and then touched 3 or 39 times
SeedSaliences == {InitialSalience + 3 * TouchBoost, SalienceCap - TouchBoost}

\* initDatabase: CREATE TABLE IF NOT EXISTS keeps the rows of an existing
\* database file; the file is either new or holds one row that an earlier
\* run created at time 0, one grace window before this start
InitWith(seeds) ==
    /\ now = GraceWindow
    /\ ops = 0
    /\ ret = NoRet
    /\ \/ /\ seq = 0
          /\ memories = << >>
          /\ memories_fts = << >>
       \/ /\ seq = 1
          /\ \E s \in seeds :
                memories = [i \in {1} |->
                    [chat_id |-> "123", content |-> MsgPrefer,
                     sector |-> "semantic", salience |-> s,
                     created_at |-> 0, accessed_at |-> 0]]
          /\ memories_fts = [i \in {1} |-> MsgPrefer]

\* no message is being handled and no sweep is between its statements
NoTurn == [pc |-> "idle", chat |-> "", msg |-> << >>, ctx |-> << >>,
           text |-> << >>, replied |-> FALSE]

NoSweep == [pc |-> "idle", decayed |-> 0, runs |-> 0]

NoBase == [store |-> << >>, id |-> 0]

\* the ids of the scheduled tasks (8 characters of a UUID in the code); an
\* id is used again after its task was deleted
TaskIds == {"t1"}

\* no run of a scheduled task is in flight
NoRuns == [t \in TaskIds |-> 0]

\* the process after main has reached `await bot.start(..)`: lock held,
\* database open, both timers armed, the bot polling; no chat id is
\* configured, so isAuthorised accepts every chat (first-run mode)
NoProc == [pc |-> "running", lock |-> TRUE, db |-> "open", timer |-> TRUE,
           pending |-> FALSE, poll |-> TRUE, bot |-> "polling",
           handlers |-> TRUE, shuttingDown |-> FALSE, exit |-> -1,
           sweeps |-> 1, ticks |-> 0, allowed |-> {}, runs |-> NoRuns]

\* no scheduled task
NoTasks == << >>

NoHandler ==
    /\ turn = NoTurn
    /\ sweep = NoSweep
    /\ base = NoBase
    /\ sessions = {}
    /\ proc = NoProc
    /\ tasks = NoTasks

Init == InitWith(SeedSaliences) /\ NoHandler

Next ==
    \/ /\ \E c \in ChatIds, a \in SaveArgs : SaveMemory(c, a[1], a[2])
       /\ UNCHANGED handlerVars
    \/ /\ \E i \in Ids : TouchMemory(i)
       /\ UNCHANGED handlerVars
    \/ /\ \E a \in DecayArgs : DecayMemories(a[1], a[2])
       /\ UNCHANGED handlerVars
    \/ /\ \E c \in ChatIds : DeleteAllMemories(c)
       /\ UNCHANGED handlerVars
    \/ /\ \E c \in ChatIds, q \in Queries : BuildMemoryContext(c, q)
       /\ UNCHANGED handlerVars
    \/ Tick /\ UNCHANGED handlerVars

\* The calls that change the store.  searchMemories, getRecentMemories and
\* getMemoriesForDisplay change nothing: they are the operators of those
\* names, evaluated in every reachable state.
Spec == Init /\ [][Next]_vars

\* The sweeper at the configured rate and floor.  A stored row is swept for
\* as long as it lives (about 114 sweeps from 1.0) and is surfaced at most
\* MaxSurfacings times, by touchMemory or by buildMemoryContext.
SweepInit == InitWith({InitialSalience}) /\ NoHandler

SweepTick == Tick /\ UNCHANGED handlerVars

SweepRun == RunDecaySweep /\ UNCHANGED handlerVars

SweepNext ==
    \/ SweepTick
    \/ SweepRun
    \/ /\ ops < MaxSurfacings
       /\ \E i \in Ids : TouchMemory(i)
       /\ UNCHANGED handlerVars
    \/ /\ ops < MaxSurfacings
       /\ \E c \in ChatIds, q \in Queries : BuildMemoryContext(c, q)
       /\ UNCHANGED handlerVars

SweepSpec == SweepInit /\ [][SweepNext]_vars

\* time passes, and setInterval(runDecaySweep, 24h) keeps firing
SweepLive == SweepSpec /\ WF_vars(SweepTick) /\ WF_vars(SweepRun)

\* The composer on a store large enough for its limits to bind: an owner
\* with up to FtsLimit + RecentLimit + 1 rows, saved one second apart and not
\* touched since, of which the k oldest match 'dark mode'; another owner
\* may hold one row.  The composer is applied to each of these stores until
\* it has touched rows: the rows a call touches have the same accessed_at,
\* and the recency query may return them in any order.
ContextRows == FtsLimit + RecentLimit + 1

ContextStore(n, k, other) ==
    [i \in 1..(n + other) |->
        [chat_id |-> IF i <= n THEN "123" ELSE "456",
         content |-> IF i <= k \/ i > n THEN MsgPrefer ELSE MsgWeather,
         sector |-> IF i <= k \/ i > n THEN "semantic" ELSE "episodic",
         salience |-> InitialSalience,
         created_at |-> i, accessed_at |-> i]]

ContextInit ==
    /\ now = GraceWindow
    /\ ops = 0
    /\ ret = NoRet
    /\ NoHandler
    /\ \E n \in 0..ContextRows, k \in 0..(FtsLimit + 1), other \in {0, 1} :
          /\ k <= n
          /\ seq = n + other
          /\ memories = ContextStore(n, k, other)
          /\ memories_fts = [i \in 1..(n + other) |->
                                ContextStore(n, k, other)[i].content]

ContextBuild ==
    /\ ops = 0
    /\ \E c \in ChatIds, q \in Queries : BuildMemoryContext(c, q)
    /\ UNCHANGED handlerVars

ContextTick == Tick /\ UNCHANGED handlerVars

ContextNext == ContextBuild \/ ContextTick

ContextSpec == ContextInit /\ [][ContextNext]_vars

\* --------------------------------------------------------- handleMessage
\* storeVars: what a throwing store call leaves as it was
storeVars == << memories, memories_fts, seq, now, ret, ops >>

\* a text message arrives; grammY hands the updates to the handler one at a
\* time (MaxId caps the number of turns: every turn may store rows)
ReceiveMessage(chatId, rawText) ==
    /\ turn.pc \in {"idle", "done"}
    /\ seq < MaxId
    /\ turn' = [pc |-> "context", chat |-> chatId, msg |-> rawText,
                ctx |-> << >>, text |-> << >>, replied |-> FALSE]
    /\ UNCHANGED << storeVars, sweep, base, sessions, procVars >>

\* const memoryContext = buildMemoryContext(chatId, rawText)
TurnBuildContext ==
    /\ turn.pc = "context"
    /\ BuildMemoryContext(turn.chat, turn.msg)
    /\ turn' = [turn EXCEPT !.pc = "agent", !.ctx = ret'.out]
    /\ UNCHANGED << sweep, base, sessions, procVars >>

\* the store fails under buildMemoryContext (getRecentMemories has no
\* try/catch): the exception leaves handleMessage through its try/finally
\* and ends in bot.catch, which logs it
TurnBuildContextThrows ==
    /\ turn.pc = "context"
    /\ turn' = [turn EXCEPT !.pc = "done"]
    /\ UNCHANGED << storeVars, sweep, base, sessions, procVars >>

\* setSession: INSERT INTO sessions .. ON CONFLICT(chat_id) DO UPDATE
SetSession(chatId) == sessions' = sessions \cup {chatId}

\* const result = await runAgent(..): the query ran, its init event gave
\* the session id and its result event a reply text, or none;
\* if (result.newSessionId) setSession(chatId, result.newSessionId)
TurnAgent ==
    /\ turn.pc = "agent"
    /\ \E text \in AssistantMsgs \cup {<< >>} :
          turn' = [turn EXCEPT !.pc = "save", !.text = text]
    /\ SetSession(turn.chat)
    /\ UNCHANGED << storeVars, sweep, base, procVars >>

\* a handler that records the turn whether or not a reply text came
TurnSave_Always ==
    /\ turn.pc = "save"
    /\ SaveConversationTurn(turn.chat, turn.msg,
                            IF turn.text = << >> THEN ReplyShort
                            ELSE turn.text)
    /\ turn' = [turn EXCEPT !.pc = "reply"]
    /\ UNCHANGED << sweep, base, sessions, procVars >>

\* if (result.text) saveConversationTurn(chatId, rawText, result.text)
TurnSave ==
    /\ turn.pc = "save"
    /\ IF turn.text = << >>
       THEN UNCHANGED storeVars
       ELSE SaveConversationTurn(turn.chat, turn.msg, turn.text)
    /\ turn' = [turn EXCEPT !.pc = "reply"]
    /\ UNCHANGED << sweep, base, sessions, procVars >>

\* the store fails under saveConversationTurn: no reply is sent either
TurnSaveThrows ==
    /\ turn.pc = "save"
    /\ turn.text # << >>
    /\ turn' = [turn EXCEPT !.pc = "done"]
    /\ UNCHANGED << storeVars, sweep, base, sessions, procVars >>

\* sendReply(ctx, result.text), or the 'No response received' notice
TurnReply ==
    /\ turn.pc = "reply"
    /\ turn' = [turn EXCEPT !.pc = "done", !.replied = TRUE]
    /\ UNCHANGED << storeVars, sweep, base, sessions, procVars >>

TurnTick == Tick /\ UNCHANGED handlerVars

TurnInit == InitWith({InitialSalience + 3 * TouchBoost}) /\ NoHandler

TurnNext ==
    \/ \E c \in ChatIds, m \in UserMsgs : ReceiveMessage(c, m)
    \/ TurnBuildContext
    \/ TurnBuildContextThrows
    \/ TurnAgent
    \/ TurnSave
    \/ TurnSaveThrows
    \/ TurnReply
    \/ TurnTick

TurnSpec == TurnInit /\ [][TurnNext]_vars

\* saveConversationTurn applied once to each utterance: the handler stands
\* after runAgent, with a short reply or with one that holds a signal
LexiconInit ==
    /\ now = GraceWindow
    /\ ops = 0
    /\ ret = NoRet
    /\ seq = 0
    /\ memories = << >>
    /\ memories_fts = << >>
    /\ sweep = NoSweep
    /\ base = NoBase
    /\ sessions = {}
    /\ proc = NoProc
    /\ tasks = NoTasks
    /\ \E c \in ChatIds, u \in Utterances, a \in {ReplyShort, ReplySignal} :
          turn = [pc |-> "save", chat |-> c, msg |-> u, ctx |-> << >>,
                  text |-> a, replied |-> FALSE]

LexiconNext == TurnSave \/ TurnReply

LexiconSpec == LexiconInit /\ [][LexiconNext]_vars

\* ------------------------------------------- a touch and a sweep, by statement
\* the salience of a row after n sweeps at rate
\* (computed 16 sweeps at a time, and on the value of s, not on the
\* expression that gives it)
DecayedTwice(s, rate) == DecaySalience(DecaySalience(s, rate), rate)
DecayedFour(s, rate) == DecayedTwice(DecayedTwice(s, rate), rate)
DecayedSixteen(s, rate) ==
    DecayedFour(DecayedFour(DecayedFour(DecayedFour(s, rate), rate), rate),
                rate)

RECURSIVE Decayed(_, _, _)
Decayed(s, rate, n) ==
    IF n = 0 \/ s = 0 THEN s
    ELSE IF n >= 16 THEN Decayed(DecayedSixteen(s, rate), rate, n - 16)
    ELSE Decayed(DecaySalience(s, rate), rate, n - 1)

\* saliences the program leaves in the store: a new row, a row touched 3
\* times, a row at the cap, a row swept once and touched 40 times (4.98), and
\* a row swept 113 times, which the next sweep takes under the floor
RaceSeeds ==
    { InitialSalience,
      InitialSalience + 3 * TouchBoost,
      SalienceCap,
      DecaySalience(InitialSalience, MEMORY_DECAY_RATE) + 40 * TouchBoost,
      Decayed(InitialSalience, MEMORY_DECAY_RATE, 113) }

\* a synchronous function runs to its end before the event loop starts
\* another callback, in place of this, a callback that may start between the
\* two statements of decayMemories
JsThreadFree_Preempted == TRUE

\* decayMemories has no await: between its UPDATE and its DELETE no other
\* callback of the process runs (and acquireLock keeps it the only process)
JsThreadFree == sweep.pc # "delete"

\* the touch of buildMemoryContext's loop, one UPDATE
RaceTouch ==
    /\ JsThreadFree
    /\ ops = 0
    /\ TouchMemory(base.id)
    /\ UNCHANGED handlerVars

\* decayMemories, first statement: the UPDATE
SweepUpdateStmt ==
    /\ sweep.pc = "idle"
    /\ memories' = DecayPass(memories, MEMORY_DECAY_RATE, now - GraceWindow)
    /\ sweep' = [sweep EXCEPT
                    !.pc = "delete",
                    !.decayed = Cardinality({i \in DOMAIN memories :
                                   memories[i].created_at < now - GraceWindow})]
    /\ UNCHANGED << memories_fts, seq, now, ret, ops, turn, base, sessions, procVars >>

\* decayMemories, second statement: the DELETE, and the return
SweepDeleteStmt ==
    /\ sweep.pc = "delete"
    /\ LET kept == PrunePass(memories, MEMORY_MIN_SALIENCE)
           gone == DOMAIN memories \ DOMAIN kept
       IN  /\ memories' = kept
           /\ memories_fts' = memories_ad(memories_fts, gone)
           /\ ret' = Returned("runDecaySweep", "", 0, << >>, << >>,
                              MEMORY_DECAY_RATE, MEMORY_MIN_SALIENCE,
                              sweep.decayed, Cardinality(gone))
    /\ sweep' = [sweep EXCEPT !.pc = "done"]
    /\ UNCHANGED << seq, now, ops, turn, base, sessions, procVars >>

\* one or two rows of an owner, created at time 0, and the program running
\* one or three grace windows later; the composer is about to touch one row
\* and the interval timer is due
RaceInit ==
    /\ now \in {GraceWindow, GraceWindow + TickStep}
    /\ ops = 0
    /\ ret = NoRet
    /\ turn = NoTurn
    /\ sweep = NoSweep
    /\ sessions = {}
    /\ proc = NoProc
    /\ tasks = NoTasks
    /\ \E n \in 1..2 :
          /\ seq = n
          /\ memories \in [1..n ->
                [chat_id : {"123"}, content : {MsgPrefer},
                 sector : {"semantic"}, salience : RaceSeeds,
                 created_at : {0}, accessed_at : {0}]]
          /\ memories_fts = [i \in 1..n |-> MsgPrefer]
          /\ \E i \in 1..n : base = [store |-> memories, id |-> i]

RaceNext == RaceTouch \/ SweepUpdateStmt \/ SweepDeleteStmt

RaceSpec == RaceInit /\ [][RaceNext]_vars

\* ------------------------------------------- readers and a sweep, by statement
\* the rows a query hands back, as they are in the store when it runs
RowsRead(ids) == [k \in 1..Len(ids) |-> memories[ids[k]]]

ReaderOps == {"searchMemories", "getRecentMemories", "getMemoriesForDisplay",
              "buildMemoryContext"}

\* a call of searchMemories, from the event loop
ReadSearch ==
    /\ JsThreadFree
    /\ \E c \in ChatIds, q \in Queries :
          \E rows \in SearchMemories(c, q, FtsLimit) :
             ret' = Returned("searchMemories", c, 0, rows, RowsRead(rows),
                             0, 0, 0, 0)
    /\ UNCHANGED << memories, memories_fts, seq, now, ops >>
    /\ UNCHANGED << turn, sweep, base, sessions, procVars >>

\* a call of getRecentMemories
ReadRecent ==
    /\ JsThreadFree
    /\ \E c \in ChatIds :
          \E rows \in GetRecentMemories(c, RecentLimit) :
             ret' = Returned("getRecentMemories", c, 0, rows, RowsRead(rows),
                             0, 0, 0, 0)
    /\ UNCHANGED << memories, memories_fts, seq, now, ops >>
    /\ UNCHANGED << turn, sweep, base, sessions, procVars >>

\* a /memory view that reinforces the rows it lists, as the composer does
ReadDisplay_Touching ==
    /\ JsThreadFree
    /\ \E c \in ChatIds :
          \E rows \in GetMemoriesForDisplay(c, DisplayLimit) :
             /\ ret' = Returned("getMemoriesForDisplay", c, 0, rows,
                                RowsRead(rows), 0, 0, 0, 0)
             /\ memories' = TouchAll(memories, rows, now)
    /\ UNCHANGED << memories_fts, seq, now, ops >>
    /\ UNCHANGED << turn, sweep, base, sessions, procVars >>

\* the /memory command: getMemoriesForDisplay(chatId, 10)
ReadDisplay ==
    /\ JsThreadFree
    /\ \E c \in ChatIds :
          \E rows \in GetMemoriesForDisplay(c, DisplayLimit) :
             ret' = Returned("getMemoriesForDisplay", c, 0, rows,
                             RowsRead(rows), 0, 0, 0, 0)
    /\ UNCHANGED << memories, memories_fts, seq, now, ops >>
    /\ UNCHANGED << turn, sweep, base, sessions, procVars >>

\* buildMemoryContext, from handleMessage
ReadContext ==
    /\ JsThreadFree
    /\ \E c \in ChatIds, q \in Queries : BuildMemoryContext(c, q)
    /\ UNCHANGED handlerVars

ReaderNext ==
    \/ ReadSearch
    \/ ReadRecent
    \/ ReadDisplay
    \/ ReadContext
    \/ SweepUpdateStmt
    \/ SweepDeleteStmt

\* the stores of RaceInit, read by the handlers of the process while the
\* interval timer fires the sweep
ReaderSpec == RaceInit /\ [][ReaderNext]_vars

\* ------------------------------------------------- the sweep, run after run
\* a new row, a row touched 3 times, and a row swept 112 times, which two
\* more sweeps take under the floor
TimerSeeds ==
    { InitialSalience,
      InitialSalience + 3 * TouchBoost,
      Decayed(InitialSalience, MEMORY_DECAY_RATE, 112) }

\* runDecaySweep as main calls it at start and setInterval calls it again:
\* each call is a whole decayMemories at the configured rate and floor
TimerSweep ==
    /\ sweep.runs < MaxSweeps
    /\ RunDecaySweep
    /\ sweep' = [sweep EXCEPT !.runs = @ + 1]
    /\ UNCHANGED << turn, base, sessions, procVars >>

\* one or two rows created at time 0 and not surfaced since, in a program
\* that sweeps one or three grace windows later
TimerInit ==
    /\ now \in {GraceWindow, GraceWindow + TickStep}
    /\ ops = 0
    /\ ret = NoRet
    /\ turn = NoTurn
    /\ sweep = NoSweep
    /\ sessions = {}
    /\ proc = NoProc
    /\ tasks = NoTasks
    /\ \E n \in 1..2 :
          /\ seq = n
          /\ memories \in [1..n ->
                [chat_id : {"123"}, content : {MsgPrefer},
                 sector : {"semantic"}, salience : TimerSeeds,
                 created_at : {0}, accessed_at : {0}]]
          /\ memories_fts = [i \in 1..n |-> MsgPrefer]
    /\ base = [store |-> memories, id |-> 0]

TimerNext == TimerSweep

TimerSpec == TimerInit /\ [][TimerNext]_vars

\* ------------------------------------------------------------- the bot
\* a clearSession that also empties the owner's memories
ClearSession_AndMemories(chatId) ==
    /\ sessions' = sessions \ {chatId}
    /\ memories' = [i \in {j \in DOMAIN memories :
                              memories[j].chat_id # chatId} |-> memories[i]]
    /\ memories_fts' = [i \in DOMAIN memories' |-> memories_fts[i]]
    /\ ret' = Returned("clearSession", chatId, 0, << >>, << >>, 0, 0, 0, 0)
    /\ UNCHANGED << seq, now, ops >>

\* clearSession: DELETE FROM sessions WHERE chat_id = ?
ClearSession(chatId) ==
    /\ sessions' = sessions \ {chatId}
    /\ ret' = Returned("clearSession", chatId, 0, << >>, << >>, 0, 0, 0, 0)
    /\ UNCHANGED << memories, memories_fts, seq, now, ops >>

\* grammY hands a command to its handler when no update is being handled
HandlerFree == turn.pc \in {"idle", "done"}

\* /newchat and /forget: the same handler body, clearSession(chatId)
SessionCommand(chatId) ==
    /\ HandlerFree
    /\ ClearSession(chatId)
    /\ UNCHANGED << turn, sweep, base, procVars >>

\* /memory: getMemoriesForDisplay(chatId, 10)
MemoryCommand ==
    /\ HandlerFree
    /\ ReadDisplay

\* the interval timer: runDecaySweep, decayMemories at the configured rate
\* and floor
BotSweep ==
    /\ DecayMemories(MEMORY_DECAY_RATE, MEMORY_MIN_SALIENCE)
    /\ UNCHANGED handlerVars

\* deleteAllMemories, which db.ts exports and no handler of the bot calls
BotDeleteAll ==
    /\ \E c \in ChatIds : DeleteAllMemories(c)
    /\ UNCHANGED handlerVars

\* the utterances of the bot's turns: one that is stored, one that is not
BotMsgs == {MsgPrefer, MsgShort}

\* the database holds no row, or one row created a grace window ago that
\* was touched 3 times or swept 113 times since
BotInit ==
    /\ InitWith({InitialSalience + 3 * TouchBoost,
                 Decayed(InitialSalience, MEMORY_DECAY_RATE, 113)})
    /\ NoHandler

BotNext ==
    \/ \E c \in ChatIds, m \in BotMsgs : ReceiveMessage(c, m)
    \/ TurnBuildContext
    \/ TurnAgent
    \/ TurnSave
    \/ TurnReply
    \/ TurnTick
    \/ \E c \in ChatIds : SessionCommand(c)
    \/ MemoryCommand
    \/ BotSweep
    \/ BotDeleteAll

BotSpec == BotInit /\ [][BotNext]_vars

\* ------------------------------------------------------ main and shutdown
\* the process has not left through process.exit
Alive == proc.pc # "exited"

\* the JS thread is between callbacks: main awaits bot.start(..), or
\* shutdown awaits bot.stop()
AtAwait == proc.pc \in {"running", "stopping"}

\* process.exit(code)
Exited(code) == [proc EXCEPT !.pc = "exited", !.exit = code]

\* if (!TELEGRAM_BOT_TOKEN) process.exit(1)
MainCheckConfig ==
    /\ proc.pc = "config"
    /\ \E token \in BOOLEAN :
          proc' = IF token THEN [proc EXCEPT !.pc = "lock"] ELSE Exited(1)
    /\ UNCHANGED << storeVars, turn, sweep, base, sessions, tasks >>

\* acquireLock(): the PID file holds this process's pid
MainAcquireLock ==
    /\ proc.pc = "lock"
    /\ proc' = [proc EXCEPT !.pc = "initdb", !.lock = TRUE]
    /\ UNCHANGED << storeVars, turn, sweep, base, sessions, tasks >>

\* an initDatabase that leaves the first sweep out
MainInitDatabase_NoSweep ==
    /\ proc.pc = "initdb"
    /\ proc' = [proc EXCEPT !.pc = "timer", !.db = "open"]
    /\ UNCHANGED << storeVars, turn, sweep, base, sessions, tasks >>

\* initDatabase(): the file is opened, the tables and triggers exist
MainInitDatabase ==
    /\ proc.pc = "initdb"
    /\ proc' = [proc EXCEPT !.pc = "sweep", !.db = "open"]
    /\ UNCHANGED << storeVars, turn, sweep, base, sessions, tasks >>

\* initDatabase or the first sweep throws: main().catch releases the lock
\* and exits with 1
MainThrows ==
    /\ proc.pc \in {"initdb", "sweep"}
    /\ proc' = [Exited(1) EXCEPT !.lock = FALSE]
    /\ UNCHANGED << storeVars, turn, sweep, base, sessions, tasks >>

\* runDecaySweep(), the call of main
MainSweep ==
    /\ proc.pc = "sweep"
    /\ RunDecaySweep
    /\ proc' = [proc EXCEPT !.pc = "timer", !.sweeps = @ + 1]
    /\ UNCHANGED << turn, sweep, base, sessions, tasks >>

\* const decayInterval = setInterval(runDecaySweep, 24 * 60 * 60 * 1000)
MainSetInterval ==
    /\ proc.pc = "timer"
    /\ proc' = [proc EXCEPT !.pc = "bot", !.timer = TRUE]
    /\ UNCHANGED << storeVars, turn, sweep, base, sessions, tasks >>

\* cleanupOldUploads(); const bot = createBot(): the handlers are
\* registered, no update is fetched yet
MainCreateBot ==
    /\ proc.pc = "bot"
    /\ proc' = [proc EXCEPT !.pc = "scheduler", !.bot = "created"]
    /\ UNCHANGED << storeVars, turn, sweep, base, sessions, tasks >>

\* initScheduler(sendToChat): pollInterval = setInterval(.., SCHEDULER_POLL_MS)
MainInitScheduler ==
    /\ proc.pc = "scheduler"
    /\ proc' = [proc EXCEPT !.pc = "signals", !.poll = TRUE]
    /\ UNCHANGED << storeVars, turn, sweep, base, sessions, tasks >>

\* process.on('SIGINT', ..); process.on('SIGTERM', ..)
MainOnSignals ==
    /\ proc.pc = "signals"
    /\ proc' = [proc EXCEPT !.pc = "start", !.handlers = TRUE]
    /\ UNCHANGED << storeVars, turn, sweep, base, sessions, tasks >>

\* await bot.start(..): the bot polls for updates
MainBotStart ==
    /\ proc.pc = "start"
    /\ proc' = [proc EXCEPT !.pc = "running", !.bot = "polling"]
    /\ UNCHANGED << storeVars, turn, sweep, base, sessions, tasks >>

\* bot.start rejects: closeDatabase(); releaseLock(); process.exit(1)
MainBotStartFails ==
    /\ proc.pc = "start"
    /\ proc' = [Exited(1) EXCEPT !.db = "closed", !.lock = FALSE]
    /\ UNCHANGED << storeVars, turn, sweep, base, sessions, tasks >>

\* 24 h have passed since the timer was armed or last fired: the callback
\* of decayInterval is due
IntervalTick ==
    /\ Alive
    /\ proc.timer
    /\ ~proc.pending
    /\ now + GraceWindow <= MaxTime
    /\ now' = now + GraceWindow
    /\ proc' = [proc EXCEPT !.pending = TRUE, !.ticks = @ + 1]
    /\ UNCHANGED << memories, memories_fts, seq, ret, ops, turn, sweep,
                    base, sessions, tasks >>

\* the event loop runs the due callback: runDecaySweep()
IntervalCallback ==
    /\ AtAwait
    /\ proc.timer
    /\ proc.pending
    /\ RunDecaySweep
    /\ proc' = [proc EXCEPT !.pending = FALSE, !.sweeps = @ + 1]
    /\ UNCHANGED << turn, sweep, base, sessions, tasks >>

\* a shutdown that leaves the decay timer armed
ShutdownClearInterval_Kept ==
    /\ proc.pc = "sd_clear"
    /\ proc' = [proc EXCEPT !.pc = "sd_sched"]
    /\ UNCHANGED << storeVars, turn, sweep, base, sessions, tasks >>

\* SIGINT or SIGTERM, the first one: shuttingDown = true
ShutdownSignal ==
    /\ proc.pc = "running"
    /\ proc.handlers
    /\ ~proc.shuttingDown
    /\ proc' = [proc EXCEPT !.pc = "sd_clear", !.shuttingDown = TRUE]
    /\ UNCHANGED << storeVars, turn, sweep, base, sessions, tasks >>

\* clearInterval(decayInterval): a due callback is dropped with the timer
ShutdownClearInterval ==
    /\ proc.pc = "sd_clear"
    /\ proc' = [proc EXCEPT !.pc = "sd_sched", !.timer = FALSE,
                            !.pending = FALSE]
    /\ UNCHANGED << storeVars, turn, sweep, base, sessions, tasks >>

\* stopScheduler(): clearInterval(pollInterval)
ShutdownStopScheduler ==
    /\ proc.pc = "sd_sched"
    /\ proc' = [proc EXCEPT !.pc = "stopping", !.poll = FALSE]
    /\ UNCHANGED << storeVars, turn, sweep, base, sessions, tasks >>

\* await bot.stop() returns, or throws and is caught
ShutdownBotStopped ==
    /\ proc.pc = "stopping"
    /\ proc' = [proc EXCEPT !.pc = "sd_close", !.bot = "stopped"]
    /\ UNCHANGED << storeVars, turn, sweep, base, sessions, tasks >>

\* closeDatabase()
ShutdownCloseDatabase ==
    /\ proc.pc = "sd_close"
    /\ proc' = [proc EXCEPT !.pc = "sd_release", !.db = "closed"]
    /\ UNCHANGED << storeVars, turn, sweep, base, sessions, tasks >>

\* releaseLock()
ShutdownReleaseLock ==
    /\ proc.pc = "sd_release"
    /\ proc' = [proc EXCEPT !.pc = "sd_exit", !.lock = FALSE]
    /\ UNCHANGED << storeVars, turn, sweep, base, sessions, tasks >>

\* process.exit(0)
ShutdownExit ==
    /\ proc.pc = "sd_exit"
    /\ proc' = Exited(0)
    /\ UNCHANGED << storeVars, turn, sweep, base, sessions, tasks >>

\* a signal while shutdown awaits bot.stop(): if (shuttingDown)
\* process.exit(1)
ShutdownForced ==
    /\ proc.pc = "stopping"
    /\ proc.shuttingDown
    /\ proc' = Exited(1)
    /\ UNCHANGED << storeVars, turn, sweep, base, sessions, tasks >>

\* the polling bot hands a text message to handleMessage
MainReceive ==
    /\ proc.pc = "running"
    /\ proc.bot = "polling"
    /\ ReceiveMessage("123", MsgPrefer)

\* a continuation of the turn in flight
MainTurnStep ==
    /\ AtAwait
    /\ TurnBuildContext \/ TurnAgent \/ TurnSave \/ TurnReply

\* main starts on an empty database, or on one with a row inserted a grace
\* window ago that decayed to just above the floor
MainInit ==
    /\ InitWith({InitialSalience,
                 Decayed(InitialSalience, MEMORY_DECAY_RATE, 112)})
    /\ turn = NoTurn
    /\ sweep = NoSweep
    /\ base = NoBase
    /\ sessions = {}
    /\ tasks = NoTasks
    /\ proc = [pc |-> "config", lock |-> FALSE, db |-> "none",
               timer |-> FALSE, pending |-> FALSE, poll |-> FALSE,
               bot |-> "none", handlers |-> FALSE, shuttingDown |-> FALSE,
               exit |-> -1, sweeps |-> 0, ticks |-> 0, allowed |-> {},
               runs |-> NoRuns]

MainNext ==
    \/ MainCheckConfig
    \/ MainAcquireLock
    \/ MainInitDatabase
    \/ MainThrows
    \/ MainSweep
    \/ MainSetInterval
    \/ MainCreateBot
    \/ MainInitScheduler
    \/ MainOnSignals
    \/ MainBotStart
    \/ MainBotStartFails
    \/ IntervalTick
    \/ IntervalCallback
    \/ ShutdownSignal
    \/ ShutdownClearInterval
    \/ ShutdownStopScheduler
    \/ ShutdownBotStopped
    \/ ShutdownCloseDatabase
    \/ ShutdownReleaseLock
    \/ ShutdownExit
    \/ ShutdownForced
    \/ MainReceive
    \/ MainTurnStep

MainSpec == MainInit /\ [][MainNext]_vars

\* the event loop runs a due timer callback once the thread is free
MainLive == MainSpec /\ WF_vars(IntervalCallback)

\* -------------------------------------------------------- authorisation
\* '/chatid' (7 characters)
MsgChatId == << "/", "c", "h", "a", "t", "i", "d" >>

\* an isAuthorised that accepts every chat whatever is configured
IsAuthorised_Open(chatId) == TRUE

\* isAuthorised: with no chat id configured every chat is accepted
\* (first-run mode); otherwise the chat must be ALLOWED_CHAT_ID or one of
\* ALLOWED_CHAT_IDS, which proc.allowed holds together
IsAuthorised(chatId) ==
    \/ proc.allowed = {}
    \/ chatId \in proc.allowed

\* a message (text, or the text made of a voice note, photo, document or
\* video) reaches its handler: if (!isAuthorised(chatId)) return, in the
\* handler and again in handleMessage
OnMessage(chatId, rawText) ==
    IF IsAuthorised(chatId)
    THEN ReceiveMessage(chatId, rawText)
    ELSE /\ turn.pc \in {"idle", "done"}
         /\ turn' = [pc |-> "done", chat |-> chatId, msg |-> rawText,
                     ctx |-> << >>, text |-> << >>, replied |-> FALSE]
         /\ UNCHANGED << storeVars, sweep, base, sessions, procVars >>

\* /memory, after its isAuthorised check
AuthMemoryCommand ==
    /\ MemoryCommand
    /\ IsAuthorised(ret'.chat)

\* /newchat and /forget, after their isAuthorised check
AuthSessionCommand(chatId) ==
    /\ IsAuthorised(chatId)
    /\ SessionCommand(chatId)

\* /chatid, the one handler without an isAuthorised check: it replies with
\* the chat's id and calls nothing on the store
ChatIdCommand(chatId) ==
    /\ HandlerFree
    /\ turn' = [pc |-> "done", chat |-> chatId, msg |-> MsgChatId,
                ctx |-> << >>, text |-> << >>, replied |-> TRUE]
    /\ UNCHANGED << storeVars, sweep, base, sessions, procVars >>

\* the allow-lists of the runs: none configured, one chat, the other chat
AllowLists == {{}, {"123"}, {"456"}}

\* the bot runs on a database that holds no row or one row of chat '123',
\* stored by an earlier run, under one of the allow-lists
AuthInit ==
    /\ InitWith({InitialSalience + 3 * TouchBoost})
    /\ turn = NoTurn
    /\ sweep = NoSweep
    /\ base = NoBase
    /\ sessions = {}
    /\ tasks = NoTasks
    /\ \E a \in AllowLists : proc = [NoProc EXCEPT !.allowed = a]

AuthNext ==
    \/ \E c \in ChatIds, m \in BotMsgs : OnMessage(c, m)
    \/ TurnBuildContext
    \/ TurnAgent
    \/ TurnSave
    \/ TurnReply
    \/ AuthMemoryCommand
    \/ \E c \in ChatIds : AuthSessionCommand(c)
    \/ \E c \in ChatIds : ChatIdCommand(c)

AuthSpec == AuthInit /\ [][AuthNext]_vars

\* ------------------------------------------------------------ scheduler
THREE_STRIKE_LIMIT == 3

\* the cron expressions of the tasks: '0 */12 * * *', which parses, and
\* 'not-a-cron', which does not
CronValid == "0 */12 * * *"
CronInvalid == "not-a-cron"
Schedules == {CronValid, CronInvalid}

\* seconds between two times of CronValid
CronPeriod == 43200

\* computeNextRun: the first time of the schedule after now, or null (-1)
ComputeNextRun(schedule) ==
    IF schedule = CronValid
    THEN (now \div CronPeriod + 1) * CronPeriod
    ELSE -1

\* createTask: INSERT .. VALUES (.., 'active', 0, ..); the callers in bot.ts
\* and the CLI hand in a schedule that passed isValidCron, the function
\* itself takes any
CreateTask(id, chatId, schedule, nextRun) ==
    /\ id \notin DOMAIN tasks
    /\ tasks' = [t \in DOMAIN tasks \cup {id} |->
                    IF t = id
                    THEN [chat_id |-> chatId, schedule |-> schedule,
                          next_run |-> nextRun, last_run |-> -1,
                          fail_count |-> 0, status |-> "active"]
                    ELSE tasks[t]]

\* an update after a failed run that leaves fail_count as it was
UpdateTaskAfterRun_NoCount(tbl, id, nextRun, failed) ==
    [t \in DOMAIN tbl |->
        IF t = id
        THEN [tbl[t] EXCEPT !.last_run = now, !.next_run = nextRun,
                            !.fail_count = IF failed THEN @ ELSE 0]
        ELSE tbl[t]]

\* updateTaskAfterRun: UPDATE .. SET last_run, last_result, next_run and
\* fail_count = fail_count + 1, or fail_count = 0
UpdateTaskAfterRun(tbl, id, nextRun, failed) ==
    [t \in DOMAIN tbl |->
        IF t = id
        THEN [tbl[t] EXCEPT !.last_run = now, !.next_run = nextRun,
                            !.fail_count = IF failed THEN @ + 1 ELSE 0]
        ELSE tbl[t]]

\* disableTask: UPDATE .. SET status = 'disabled' WHERE id = ?
DisableTask(tbl, id) ==
    [t \in DOMAIN tbl |->
        IF t = id THEN [tbl[t] EXCEPT !.status = "disabled"] ELSE tbl[t]]

\* getDueTasks: WHERE status = 'active' AND next_run <= now
GetDueTasks ==
    {t \in DOMAIN tasks :
        tasks[t].status = "active" /\ tasks[t].next_run <= now}

\* what the scheduler's steps leave alone
schedFrame == << memories, memories_fts, seq, ret, ops, turn, sweep, base,
                 sessions >>

\* the poll timer fires and runDueTasks starts on a due task; a poll that
\* fires while an earlier run of the task still awaits the agent finds the
\* task due again (MaxRuns caps the runs of a task in flight)
SchedPoll(id) ==
    /\ proc.poll
    /\ id \in GetDueTasks
    /\ proc.runs[id] < MaxRuns
    /\ proc' = [proc EXCEPT !.runs[id] = @ + 1]
    /\ UNCHANGED << schedFrame, now, tasks >>

\* the try block ran through: the agent answered and the sends went out;
\* updateTaskAfterRun(id, text, nextRun), or disableTask when the schedule
\* does not parse.  The task's row is read by id: it may have been paused,
\* resumed or deleted since the poll.
SchedRunSucceeds(id) ==
    /\ proc.runs[id] > 0
    /\ proc' = [proc EXCEPT !.runs[id] = @ - 1]
    /\ tasks' = IF id \notin DOMAIN tasks THEN tasks
                ELSE IF ComputeNextRun(tasks[id].schedule) = -1
                THEN DisableTask(tasks, id)
                ELSE UpdateTaskAfterRun(tasks, id,
                        ComputeNextRun(tasks[id].schedule), FALSE)
    /\ UNCHANGED << schedFrame, now >>

\* the row after the catch block's update, before the three-strike test
SchedAfterFailure(id) ==
    IF ComputeNextRun(tasks[id].schedule) = -1
    THEN DisableTask(tasks, id)
    ELSE UpdateTaskAfterRun(tasks, id, ComputeNextRun(tasks[id].schedule),
                            TRUE)

\* a send or the agent threw: the catch block updates the task with
\* failed = true (or disables it when the schedule does not parse), reads
\* it back and disables it when fail_count >= THREE_STRIKE_LIMIT
SchedRunFails(id) ==
    /\ proc.runs[id] > 0
    /\ proc' = [proc EXCEPT !.runs[id] = @ - 1]
    /\ tasks' = IF id \notin DOMAIN tasks THEN tasks
                ELSE LET updated == SchedAfterFailure(id)
                     IN  IF updated[id].fail_count >= THREE_STRIKE_LIMIT
                         THEN DisableTask(updated, id)
                         ELSE updated
    /\ UNCHANGED << schedFrame, now >>

\* /schedule create and the CLI's create, after isValidCron; createTask
\* called with a schedule that does not parse.  The id is new (randomUUID):
\* no run of an earlier task is in flight under it.
SchedCreate(id, schedule) ==
    /\ proc.runs[id] = 0
    /\ CreateTask(id, "123", schedule,
                  IF schedule = CronValid THEN ComputeNextRun(schedule)
                  ELSE now)
    /\ UNCHANGED << schedFrame, now, proc >>

\* /schedule pause <id>: pauseTask
SchedPause(id) ==
    /\ id \in DOMAIN tasks
    /\ tasks' = [tasks EXCEPT ![id].status = "paused"]
    /\ UNCHANGED << schedFrame, now, proc >>

\* /schedule resume <id>: resumeTask(id, now + 60); fail_count stays
SchedResume(id) ==
    /\ id \in DOMAIN tasks
    /\ tasks' = [tasks EXCEPT ![id].status = "active",
                              ![id].next_run = now + 60]
    /\ UNCHANGED << schedFrame, now, proc >>

\* /schedule delete <id>: deleteTask
SchedDelete(id) ==
    /\ id \in DOMAIN tasks
    /\ tasks' = [t \in DOMAIN tasks \ {id} |-> tasks[t]]
    /\ UNCHANGED << schedFrame, now, proc >>

\* half a day passes
SchedTick ==
    /\ now + CronPeriod <= MaxTime
    /\ now' = now + CronPeriod
    /\ UNCHANGED << schedFrame, proc, tasks >>

SchedInit ==
    /\ InitWith({InitialSalience})
    /\ NoHandler

SchedNext ==
    \/ \E id \in TaskIds : SchedPoll(id)
    \/ \E id \in TaskIds : SchedRunSucceeds(id)
    \/ \E id \in TaskIds : SchedRunFails(id)
    \/ \E id \in TaskIds, sch \in Schedules : SchedCreate(id, sch)
    \/ \E id \in TaskIds : SchedPause(id)
    \/ \E id \in TaskIds : SchedResume(id)
    \/ \E id \in TaskIds : SchedDelete(id)
    \/ SchedTick

SchedSpec == SchedInit /\ [][SchedNext]_vars

\* the values MAX_MEMORY_RESULTS is configured to
DefaultMaxMemoryResults == 8
MaxMemoryResultsValues == {1, 2, DefaultMaxMemoryResults}

TypeOK ==
    /\ DOMAIN memories \subseteq Ids
    /\ seq \in 0..MaxId
    /\ now \in 0..MaxTime

\* ---------------------------------------------------------------- claims
\* a step of the named call that changed something
StepOf(op) ==
    /\ ret'.op = op
    /\ (ret' # ret \/ ops' # ops \/ memories' # memories)

\* C1: in every reachable state the index holds an entry for exactly the ids
\* of the stored rows, each with that row's content.
C1_IndexMirrorsStore ==
    /\ DOMAIN memories_fts = DOMAIN memories
    /\ \A i \in DOMAIN memories : memories_fts[i] = memories[i].content

\* a sweep has deleted a row and left another one in the store
C1_Witness ==
    /\ ret.op = "decayMemories"
    /\ ret.n2 >= 1
    /\ memories # << >>

OwnedBy(rows, chatId) ==
    \A k \in 1..Len(rows) :
        /\ rows[k] \in DOMAIN memories
        /\ memories[rows[k]].chat_id = chatId

\* C2: searchMemories, getRecentMemories, getMemoriesForDisplay and
\* buildMemoryContext of owner A return only rows of A, and
\* buildMemoryContext(A, .) changes no row of another owner.
C2_OwnerIsolation ==
    /\ [](\A c \in ChatIds :
            /\ \A q \in Queries :
                  \A r \in SearchMemories(c, q, FtsLimit) : OwnedBy(r, c)
            /\ \A r \in GetRecentMemories(c, RecentLimit) : OwnedBy(r, c)
            /\ \A r \in GetMemoriesForDisplay(c, DisplayLimit) : OwnedBy(r, c))
    /\ [](ret.op = "buildMemoryContext" => OwnedBy(ret.ids, ret.chat))
    /\ [][StepOf("buildMemoryContext") =>
            \A i \in DOMAIN memories :
                memories[i].chat_id # ret'.chat =>
                    /\ i \in DOMAIN memories'
                    /\ memories'[i] = memories[i]]_vars

\* buildMemoryContext returned rows of its owner while another owner has one
C2_Witness ==
    /\ ret.op = "buildMemoryContext"
    /\ ret.ids # << >>
    /\ \E j \in DOMAIN memories : memories[j].chat_id # ret.chat

\* C3: every stored salience s satisfies 0 <= s <= 5.0, the decay rates
\* being in (0, 1].
C3_SalienceInRange ==
    \A i \in DOMAIN memories :
        /\ 0 <= memories[i].salience
        /\ memories[i].salience <= SalienceCap

\* a touch has brought a row to the cap
C3_Witness ==
    /\ ret.op = "touchMemory"
    /\ ret.id \in DOMAIN memories
    /\ memories[ret.id].salience = SalienceCap
    /\ \A a \in DecayArgs : 0 < a[1] /\ a[1] <= 100

\* the salience the decay pass of a sweep at time t gives row r
AfterDecayPass(r, rate, t) ==
    IF r.created_at < t - GraceWindow
    THEN (r.salience * rate + 50) \div 100
    ELSE r.salience

\* C4: right after decayMemories(rate, minSalience) no row has a salience
\* below minSalience, and every row whose salience after the decay pass is
\* at least minSalience, the floor itself included, is still stored.
C4_PruneStrictlyBelowFloor ==
    /\ [](ret.op = "decayMemories" =>
            \A i \in DOMAIN memories : memories[i].salience >= ret.min)
    /\ [][StepOf("decayMemories") =>
            \A i \in DOMAIN memories :
                AfterDecayPass(memories[i], ret'.rate, now) >= ret'.min =>
                    i \in DOMAIN memories']_vars

\* a sweep has kept a row whose salience is exactly the floor
C4_Witness ==
    /\ ret.op = "decayMemories"
    /\ \E i \in DOMAIN memories : memories[i].salience = ret.min
    /\ ret.n2 >= 1

\* C7: touchMemory(id) on a row of salience s sets it to min(s + 0.1, 5.0)
\* and sets accessed_at to now; a row at 5.0 stays at 5.0.
C7_TouchBoostsAndCaps ==
    [][(StepOf("touchMemory") /\ ret'.id \in DOMAIN memories) =>
          LET old == memories[ret'.id]
              new == memories'[ret'.id]
          IN  /\ new.salience = IF old.salience + Scale \div 10 < 5 * Scale
                                THEN old.salience + Scale \div 10
                                ELSE 5 * Scale
              /\ new.accessed_at = now
              /\ (old.salience = 5 * Scale => new.salience = 5 * Scale)]_vars

\* a touch made after the clock moved has left a row at exactly 5.0
C7_Witness ==
    /\ ret.op = "touchMemory"
    /\ ret.id \in DOMAIN memories
    /\ memories[ret.id].salience = 5 * Scale
    /\ memories[ret.id].accessed_at = now
    /\ now > memories[ret.id].created_at
    /\ ops = 2

\* s2 is s times rate, to within half a unit of the fixed point
IsProduct(s2, s, rate) ==
    /\ 100 * s2 - s * rate <= 50
    /\ s * rate - 100 * s2 <= 50

\* C8: one sweep multiplies by rate, once, the salience of every row created
\* before the grace window and leaves every younger row's salience as it
\* was; at rate 0.98 a row at 1.3 goes to about 1.274 and then about 1.249.
C8_DecayOncePastGrace ==
    [][StepOf("decayMemories") =>
          \A i \in DOMAIN memories \cap DOMAIN memories' :
              /\ memories[i].created_at < now - 86400 =>
                    IsProduct(memories'[i].salience, memories[i].salience,
                              ret'.rate)
              /\ memories[i].created_at > now - 86400 =>
                    memories'[i].salience = memories[i].salience
              /\ (/\ ret'.rate = 98
                  /\ memories[i].created_at < now - 86400
                  /\ memories[i].salience = 130000) =>
                    /\ memories'[i].salience - 127400 \in -50..50
                    /\ DecaySalience(memories'[i].salience, 98) - 124900
                          \in -50..50]_vars

\* two sweeps at 0.98 have taken a row from 1.3 to 1.24852 while a row of
\* another owner, younger than the grace window, is still at 1.0
C8_Witness ==
    /\ ret.op = "decayMemories"
    /\ ret.rate = 98
    /\ \E i, j \in DOMAIN memories :
          /\ memories[i].salience = 124852
          /\ memories[j].chat_id # memories[i].chat_id
          /\ memories[j].created_at > now - 86400
          /\ memories[j].salience = Scale

\* C9 as stated: a row created exactly one grace window before the sweep
\* has its salience multiplied by rate.
C9_BoundaryRowDecays ==
    [][StepOf("decayMemories") =>
          \A i \in DOMAIN memories \cap DOMAIN memories' :
              memories[i].created_at = now - 86400 =>
                  IsProduct(memories'[i].salience, memories[i].salience,
                            ret'.rate)]_vars

\* C9, amended: a row created exactly one grace window before the sweep is
\* not decayed by it (created_at < now - 86400 is strict); it is decayed by
\* the first sweep that runs more than 24h after its creation.
C9_BoundaryRowKept ==
    [][StepOf("decayMemories") =>
          \A i \in DOMAIN memories \cap DOMAIN memories' :
              memories[i].created_at = now - 86400 =>
                  memories'[i].salience = memories[i].salience]_vars

\* a sweep at 0.98 has run with a row exactly on the boundary
C9_Witness ==
    /\ ret.op = "decayMemories"
    /\ ret.rate = 98
    /\ ret.n1 = 0
    /\ \E i \in DOMAIN memories :
          /\ memories[i].created_at = now - 86400
          /\ memories[i].salience = 130000

\* C10: the output of buildMemoryContext has one line per selected memory
\* and no memory id twice.
C10_NoDuplicateInContext ==
    ret.op = "buildMemoryContext" =>
        /\ Len(ret.out) = Len(ret.ids)
        /\ \A k, l \in 1..Len(ret.ids) : k # l => ret.ids[k] # ret.ids[l]

\* the two queries returned more rows than the call selected: a row came
\* back from both and is on one line
C10_Witness ==
    /\ ret.op = "buildMemoryContext"
    /\ ret.n1 >= 1
    /\ ret.n1 + ret.n2 > Len(ret.ids)
    /\ Len(ret.out) >= 1

\* the last call surfaced row i: nothing but the clock has moved since
LastSurfaced(i) ==
    \/ ret.op = "touchMemory" /\ ret.id = i
    \/ ret.op = "buildMemoryContext" /\ i \in SeqRange(ret.ids)

\* C5: at rate 0.98 and floor 0.1 a sweep never deletes a row that was
\* surfaced since the sweep before it, and leaves it at or above the floor.
C5_SurfacedRowSurvivesSweep ==
    [][StepOf("runDecaySweep") =>
          \A i \in DOMAIN memories :
              LastSurfaced(i) =>
                  /\ i \in DOMAIN memories'
                  /\ memories'[i].salience >= Scale \div 10]_vars

\* a row that had decayed to within one sweep of the floor was surfaced and
\* then swept, and is still stored
C5_Witness ==
    /\ ret.op = "runDecaySweep"
    /\ ret.n1 = 1
    /\ ops = 1
    /\ \E i \in DOMAIN memories :
          /\ memories[i].accessed_at > memories[i].created_at
          /\ memories[i].salience < 2 * 98 * (Scale \div 1000) + 200

\* C6: with sweeps running and no further touch, every stored row is
\* eventually deleted, and its index entry with it.
\* (no row is inserted under SweepNext and surfacings are bounded, so this
\* is: a non-empty store leads to an empty store and an empty index)
C6_UntouchedRowEventuallyDeleted ==
    (memories # << >>) ~> (memories = << >> /\ memories_fts = << >>)

\* a sweep has deleted the last row after it had decayed under the floor
C6_Witness ==
    /\ ret.op = "runDecaySweep"
    /\ ret.n2 = 1
    /\ seq = 1
    /\ memories = << >>
    /\ memories_fts = << >>

\* ------------------------------------------------------- claims C11..C20
\* C11: buildMemoryContext touches every memory of its output once (one
\* 0.1 increment, also for a memory both queries found, and accessed_at set
\* to now) and leaves every other row, and the set of rows, as they were.
C11_TouchesExactlySelected ==
    [][StepOf("buildMemoryContext") =>
          /\ DOMAIN memories' = DOMAIN memories
          /\ Len(ret'.out) = Len(ret'.ids)
          /\ \A k \in 1..Len(ret'.ids) :
                ret'.out[k].content = memories[ret'.ids[k]].content
          /\ \A i \in DOMAIN memories :
                IF i \in SeqRange(ret'.ids)
                THEN memories'[i] =
                        [memories[i] EXCEPT
                            !.accessed_at = now,
                            !.salience =
                                IF memories[i].salience + Scale \div 10
                                       <= 5 * Scale
                                THEN memories[i].salience + Scale \div 10
                                ELSE 5 * Scale]
                ELSE memories'[i] = memories[i]]_vars

\* a call selected a row that both queries returned, now at 1.1, and left a
\* row of the same owner unselected and as it was
C11_Witness ==
    /\ ret.op = "buildMemoryContext"
    /\ ret.n1 + ret.n2 > Len(ret.ids)
    /\ \A k \in 1..Len(ret.ids) :
          memories[ret.ids[k]].salience = Scale + Scale \div 10
    /\ \E j \in DOMAIN memories :
          /\ memories[j].chat_id = ret.chat
          /\ j \notin SeqRange(ret.ids)
          /\ memories[j].salience = Scale
          /\ memories[j].accessed_at = memories[j].created_at

HasRows(chatId) == \E i \in DOMAIN memories : memories[i].chat_id = chatId

\* C12: buildMemoryContext returns the empty context exactly when the owner
\* has no row, whatever the query and whatever other owners hold, and such
\* a call changes nothing in the store or the index.
C12_EmptyIffNoRows ==
    /\ [](ops = 0 =>
            \A c \in ChatIds, q \in Queries :
                /\ Combined(c, q) # {}
                /\ \A x \in Combined(c, q) :
                      (x.ids = << >>) <=> ~HasRows(c))
    /\ [][StepOf("buildMemoryContext") =>
            /\ (ret'.out = << >>) <=> ~HasRows(ret'.chat)
            /\ ret'.out = << >> =>
                  /\ memories' = memories
                  /\ memories_fts' = memories_fts]_vars

\* a call returned the empty context for an owner without rows while another
\* owner holds rows, and touched none of them
C12_Witness ==
    /\ ret.op = "buildMemoryContext"
    /\ ret.out = << >>
    /\ memories # << >>
    /\ ~HasRows(ret.chat)
    /\ ops = 0

\* the recency part of a context: r without the rows of f
NotIn(r, f) == SelectSeq(r, LAMBDA i : i \notin SeqRange(f))

\* C13: the selection of buildMemoryContext is the search results (at most
\* 3) as searchMemories returned them, followed by those of the recency
\* results (at most 5, the owner's most recently accessed rows, accessed_at
\* descending) that are not among them: at most 8 lines.
C13_RelevanceThenRecency ==
    /\ [](ops = 0 =>
           \A c \in ChatIds, q \in Queries :
            \A f \in SearchMemories(c, q, FtsLimit),
               r \in GetRecentMemories(c, RecentLimit) :
                /\ Len(f) <= 3
                /\ Len(r) <= 5
                /\ \A k, l \in 1..Len(r) :
                      k < l => memories[r[k]].accessed_at
                                 >= memories[r[l]].accessed_at
                /\ \A j \in DOMAIN memories :
                      (memories[j].chat_id = c /\ j \notin SeqRange(r)) =>
                          /\ Len(r) = 5
                          /\ \A k \in 1..Len(r) :
                                memories[r[k]].accessed_at
                                    >= memories[j].accessed_at
                /\ Combine(f, r) = f \o NotIn(r, f)
                /\ Len(Combine(f, r)) <= 8)
    /\ [][StepOf("buildMemoryContext") =>
            /\ Len(ret'.out) <= 8
            /\ \E q \in Queries :
               \E f \in SearchMemories(ret'.chat, q, FtsLimit),
                  r \in GetRecentMemories(ret'.chat, RecentLimit) :
                    /\ Len(f) = ret'.n1
                    /\ Len(r) = ret'.n2
                    /\ ret'.ids = f \o NotIn(r, f)]_vars

\* a call returned 8 lines, 3 from the search and 5 from the recency query,
\* for an owner with more rows than that
C13_Witness ==
    /\ ret.op = "buildMemoryContext"
    /\ ret.n1 = 3
    /\ ret.n2 = 5
    /\ Len(ret.out) = 8
    /\ Cardinality({i \in DOMAIN memories : memories[i].chat_id = ret.chat})
          > 8

\* C14 as stated: whatever MAX_MEMORY_RESULTS is configured to, a context
\* holds at most that many memories.
C14_WithinConfiguredMax ==
    \A m \in MaxMemoryResultsValues :
        ret.op = "buildMemoryContext" => Len(ret.ids) <= m

\* the step of handleMessage that called buildMemoryContext and went on
ContextStep == turn.pc = "context" /\ turn'.pc = "agent"

C16_ReplyAlwaysDelivered ==
    turn.pc = "done" => turn.replied

\* the step of handleMessage that called saveConversationTurn and went on
SaveStep ==
    /\ turn.pc = "save"
    /\ turn.text # << >>
    /\ turn'.pc = "reply"

\* C17: saveConversationTurn on an utterance of length <= 20 or starting
\* with '/' leaves the store, the index and the id sequence as they were,
\* whatever the reply.
C17_SkippedTurnStoresNothing ==
    [][(SaveStep /\ (Len(turn.msg) <= 20 \/ turn.msg[1] = "/")) =>
          /\ ret'.op = "saveConversationTurn"
          /\ memories' = memories
          /\ memories_fts' = memories_fts
          /\ seq' = seq]_vars

\* an utterance of exactly 20 characters came with a reply of more than 20
\* and the store is still empty
C17_Witness ==
    /\ turn.pc = "reply"
    /\ ret.op = "saveConversationTurn"
    /\ turn.msg = MsgTwenty
    /\ Len(turn.text) > 20
    /\ seq = 0
    /\ memories = << >>
    /\ memories_fts = << >>

\* C19: a turn that is persisted adds the utterance as row seq + 1 and, only
\* if the reply has more than 20 characters, the reply as row seq + 2 with
\* sector episodic whatever its wording; both belong to the owner, and the
\* rows already stored stay as they were.
C19_ReplyStoredEpisodic ==
    [][(SaveStep /\ ~(Len(turn.msg) <= 20 \/ turn.msg[1] = "/")) =>
          LET n == IF Len(turn.text) > 20 THEN 2 ELSE 1
          IN  /\ seq' = seq + n
              /\ DOMAIN memories' = DOMAIN memories \cup (seq + 1)..(seq + n)
              /\ \A i \in DOMAIN memories : memories'[i] = memories[i]
              /\ memories'[seq + 1].content = turn.msg
              /\ memories'[seq + 1].chat_id = turn.chat
              /\ n = 2 =>
                    memories'[seq + 2] =
                        [chat_id |-> turn.chat, content |-> turn.text,
                         sector |-> "episodic", salience |-> Scale,
                         created_at |-> now, accessed_at |-> now]]_vars

\* a turn stored its utterance and then the reply 'I always remember that.'
\* as an episodic row
C19_Witness ==
    /\ turn.pc = "reply"
    /\ ret.op = "saveConversationTurn"
    /\ seq = 2
    /\ DOMAIN memories = {1, 2}
    /\ memories[1].content = turn.msg
    /\ memories[2].content = ReplySignal
    /\ memories[2].sector = "episodic"
    /\ memories[2].chat_id = memories[1].chat_id

\* the lexicon as the claim lists it, in lower case
C18_Lexicon ==
    { << "m", "y" >>, << "i", " ", "a", "m" >>, << "i", "'", "m" >>,
      << "i", " ", "p", "r", "e", "f", "e", "r" >>,
      << "r", "e", "m", "e", "m", "b", "e", "r" >>,
      << "a", "l", "w", "a", "y", "s" >>, << "n", "e", "v", "e", "r" >> }

\* msg is u \o w \o v with w a signal up to case, u not ending and v not
\* beginning with a letter, a digit or an underscore
C18_HasWholeWordSignal(msg) ==
    \E a \in 1..Len(msg), b \in 1..Len(msg) :
        /\ a <= b
        /\ [k \in 1..(b - a + 1) |-> ToLower(msg[a + k - 1])] \in C18_Lexicon
        /\ a > 1 => msg[a - 1] \notin LowerCase \cup UpperCase \cup Digits
                                       \cup {"_"}
        /\ b < Len(msg) => msg[b + 1] \notin LowerCase \cup UpperCase
                                           \cup Digits \cup {"_"}

\* C18: the utterance saveConversationTurn stores has sector semantic if it
\* holds a signal of the lexicon as a whole word, in any casing, and
\* episodic otherwise; 'I prefer dark mode in every app' is semantic and
\* "What's the weather tomorrow?" is episodic.
C18_SectorByLexicon ==
    (ret.op = "saveConversationTurn" /\ ret.id \in DOMAIN memories) =>
        /\ memories[ret.id].content = turn.msg
        /\ memories[ret.id].sector =
              IF C18_HasWholeWordSignal(turn.msg)
              THEN "semantic" ELSE "episodic"
        /\ turn.msg = MsgPrefer => memories[ret.id].sector = "semantic"
        /\ turn.msg = MsgWeather => memories[ret.id].sector = "episodic"

\* "well, I'M thing to do for today" was stored as semantic
C18_Witness ==
    /\ ret.op = "saveConversationTurn"
    /\ ret.id \in DOMAIN memories
    /\ memories[ret.id].content =
          << "w", "e", "l", "l", ",", " ", "I", "'", "M" >>
              \o << " ", "t", "h", "i", "n", "g", " ", "t", "o", " ", "d",
                    "o", " ", "f", "o", "r", " ", "t", "o", "d", "a", "y" >>
    /\ memories[ret.id].sector = "semantic"

\* the store after the touch and then the whole sweep, and after the whole
\* sweep and then the touch, both at time t
C20_TouchThenSweep(store, id, t) ==
    PrunePass(DecayPass(TouchRow(store, id, t), MEMORY_DECAY_RATE,
                        t - GraceWindow),
              MEMORY_MIN_SALIENCE)

C20_SweepThenTouch(store, id, t) ==
    TouchRow(PrunePass(DecayPass(store, MEMORY_DECAY_RATE, t - GraceWindow),
                       MEMORY_MIN_SALIENCE),
             id, t)

\* C20: when a touch of a row and a sweep have both run, in whatever way the
\* process scheduled them, the store is the one that touch-then-sweep or
\* the one that sweep-then-touch leaves, and at no point is a salience
\* negative or above the cap.
C20_TouchSweepSerial ==
    /\ \A i \in DOMAIN memories :
          /\ memories[i].salience >= 0
          /\ memories[i].salience <= 5 * Scale
    /\ (sweep.pc = "done" /\ ops = 1) =>
          \/ memories = C20_TouchThenSweep(base.store, base.id, now)
          \/ memories = C20_SweepThenTouch(base.store, base.id, now)

\* the touch came first and saved a row that the sweep alone would have
\* taken under the floor and deleted: the two orders differ
C20_Witness ==
    /\ sweep.pc = "done"
    /\ ops = 1
    /\ ret.op = "runDecaySweep"
    /\ ret.n1 >= 1
    /\ base.id \in DOMAIN memories
    /\ base.id \notin DOMAIN C20_SweepThenTouch(base.store, base.id, now)

\* --------------------------------------------------------- claims C21..C30
\* a step in which a reader ran: it is no statement of the sweep
C21_ReadStep ==
    /\ ret'.op \in ReaderOps
    /\ sweep' = sweep

\* C21: no call of searchMemories, getRecentMemories, getMemoriesForDisplay
\* or buildMemoryContext runs between the UPDATE and the DELETE of a sweep,
\* and none is handed a row whose salience is below the floor.
C21_SweepAtomicForReaders ==
    [][C21_ReadStep =>
         /\ sweep.pc # "delete"
         /\ \A i \in SeqRange(ret'.ids) :
               memories[i].salience >= MEMORY_MIN_SALIENCE]_vars

\* a reader ran after a sweep that deleted one row of two, and was handed
\* the other
C21_Witness ==
    /\ sweep.pc = "done"
    /\ ret.op \in ReaderOps
    /\ ret.ids # << >>
    /\ Cardinality(DOMAIN base.store) = 2
    /\ Cardinality(DOMAIN memories) = 1

\* the salience two sweeps at time t give row r: the decay pass of the
\* second applied to what the decay pass of the first left
C22_AfterTwoPasses(r, rate, t) ==
    AfterDecayPass([r EXCEPT !.salience = AfterDecayPass(r, rate, t)],
                   rate, t)

\* C22 as claimed: after two sweeps in a row the store is what one sweep
\* leaves, row for row and salience for salience.
C22_SweepIdempotent ==
    sweep.runs = 2 =>
        /\ DOMAIN memories =
              {i \in DOMAIN base.store :
                 AfterDecayPass(base.store[i], MEMORY_DECAY_RATE, now)
                    >= MEMORY_MIN_SALIENCE}
        /\ \A i \in DOMAIN memories :
              memories[i].salience =
                 AfterDecayPass(base.store[i], MEMORY_DECAY_RATE, now)

\* C22, amended: the sweep is not idempotent.  After two sweeps in a row a
\* row older than the grace window holds its salience multiplied by the rate
\* twice, and it is stored if and only if that is not below the floor; a row
\* inside the grace window is left as it was by both.
C22_SecondSweepDecaysAgain ==
    sweep.runs = 2 =>
        /\ DOMAIN memories =
              {i \in DOMAIN base.store :
                 C22_AfterTwoPasses(base.store[i], MEMORY_DECAY_RATE, now)
                    >= MEMORY_MIN_SALIENCE}
        /\ \A i \in DOMAIN memories :
              /\ memories[i].salience =
                    C22_AfterTwoPasses(base.store[i], MEMORY_DECAY_RATE, now)
              /\ base.store[i].created_at >= now - GraceWindow =>
                    memories[i] = base.store[i]

\* the second sweep has deleted a row that the first one kept, and has
\* decayed another one again
C22_Witness ==
    /\ sweep.runs = 2
    /\ ret.n2 = 1
    /\ \E i \in DOMAIN base.store \ DOMAIN memories :
          AfterDecayPass(base.store[i], MEMORY_DECAY_RATE, now)
             >= MEMORY_MIN_SALIENCE
    /\ \E i \in DOMAIN memories :
          memories[i].salience <
             AfterDecayPass(base.store[i], MEMORY_DECAY_RATE, now)

\* the rows that start at 1.0, are older than the grace window and are not
\* surfaced
C23_FreshRows ==
    {i \in DOMAIN base.store :
        /\ base.store[i].salience = InitialSalience
        /\ base.store[i].created_at < now - GraceWindow}

\* C23: at rate 0.98 and floor 0.1 a row that starts at 1.0 and is never
\* surfaced is above half its salience after 34 passes and below it after
\* 35 (ln 0.5 / ln 0.98 = 34.3), is still stored after 113 passes and is
\* deleted by the 114th (ln 0.1 / ln 0.98 = 113.97).
C23_HalfLifeAndDeletion ==
    \A i \in C23_FreshRows :
        /\ sweep.runs <= 113 => i \in DOMAIN memories
        /\ sweep.runs >= 114 => i \notin DOMAIN memories
        /\ i \in DOMAIN memories =>
              /\ sweep.runs <= 34 => 2 * memories[i].salience > InitialSalience
              /\ sweep.runs >= 35 => 2 * memories[i].salience < InitialSalience

\* the 114th pass has just deleted such a row
C23_Witness ==
    /\ sweep.runs = 114
    /\ ret.op = "runDecaySweep"
    /\ ret.n2 >= 1
    /\ C23_FreshRows # {}

\* the queries whose every term is a prefix of a token of the content, and
\* which the index can parse
C24_Finders(content) ==
    {q \in SearchedTexts :
        /\ MatchTable[content][q]
        /\ ~EmptyQuery[q]
        /\ ~QueryFails[q]}

\* C24: saveMemory adds exactly one row, under an id above every id given
\* before, with salience 1.0, created_at = accessed_at = now and the owner,
\* content and sector it was given, and changes no other row; from the
\* moment it returns, a search of the owner for words of the content finds
\* the row.
C24_InsertOneFreshRow ==
    /\ [][\A c \in ChatIds, a \in SaveArgs :
            SaveMemory(c, a[1], a[2]) =>
                LET id == ret'.id
                IN  /\ id > seq
                    /\ id \notin DOMAIN memories
                    /\ DOMAIN memories' = DOMAIN memories \cup {id}
                    /\ memories'[id] =
                          [chat_id |-> c, content |-> a[1], sector |-> a[2],
                           salience |-> 1 * Scale, created_at |-> now,
                           accessed_at |-> now]
                    /\ \A i \in DOMAIN memories :
                          memories'[i] = memories[i]]_vars
    /\ [](ret.op = "saveMemory" =>
            /\ ret.id \in DOMAIN memories
            /\ C24_Finders(memories[ret.id].content) # {}
            /\ \A q \in C24_Finders(memories[ret.id].content) :
                  \A rows \in SearchMemories(ret.chat, q, FtsLimit) :
                      ret.id \in SeqRange(rows))

\* a row was saved after row 1 was deleted: it is row 2
C24_Witness ==
    /\ ret.op = "saveMemory"
    /\ ret.id = 2
    /\ DOMAIN memories = {2}
    /\ memories[2].content = MsgWeather

\* the queries that normalize to nothing: no letter and no digit in them
C25_NormalizesToNothing ==
    {q \in SearchedTexts :
        \A k \in 1..Len(q) :
            q[k] \notin LowerCase \cup UpperCase \cup Digits}

\* C25: whatever the store holds, searchMemories returns the empty list,
\* and does not throw, for the empty query, a query of spaces and a query
\* of punctuation.
C25_EmptyQueryEmptyResult ==
    /\ {QueryEmpty, QueryBlank, MsgGarbage} \subseteq C25_NormalizesToNothing
    /\ \A c \in ChatIds, q \in C25_NormalizesToNothing :
          SearchMemories(c, q, FtsLimit) = {<< >>}

\* the owner has two rows, one of which 'dark mode' finds
C25_Witness ==
    /\ Cardinality({i \in DOMAIN memories :
                       memories[i].chat_id = "123"}) = 2
    /\ << >> \notin SearchMemories("123", QueryDark, FtsLimit)
    /\ SearchMemories("123", MsgGarbage, FtsLimit) = {<< >>}

\* the words of a text: its maximal runs of letters and digits, lower case
C26_Words(t) == SeqRange(Runs(LowerText(t), AlphaNum, 1, << >>))

\* the terms of a query: what is left of it after everything but letters,
\* digits and spaces is taken out, split at the spaces
C26_Terms(q) ==
    SeqRange(Runs(SelectSeq(q, LAMBDA ch : ch \in AlphaNum \cup {" "}),
                  AlphaNum, 1, << >>))

\* the query holds a whole word of the content
C26_SharesWord ==
    [t \in StoredTexts |->
        [q \in SearchedTexts |-> C26_Words(q) \cap C26_Words(t) # {}]]

\* the query has a term, every term is the beginning of a word of the
\* content, and no term is AND, OR or NOT in upper case
C26_TermsArePrefixes ==
    [t \in StoredTexts |->
        [q \in SearchedTexts |->
            /\ C26_Terms(q) # {}
            /\ \A term \in C26_Terms(q) :
                  /\ term \notin {<< "A", "N", "D" >>, << "O", "R" >>,
                                   << "N", "O", "T" >>}
                  /\ \E w \in C26_Words(t) :
                        IsPrefixOf(LowerText(term), w)]]

\* every result searchMemories may give for the owner of row i holds row i
C26_Found(i, q) ==
    \A rows \in SearchMemories(memories[i].chat_id, q, FtsLimit) :
        i \in SeqRange(rows)

\* C26 as claimed: a stored row is found by every query that holds a part
\* of its content, here a whole word of it.
C26_FoundBySubstring ==
    \A i \in DOMAIN memories, q \in SearchedTexts :
        C26_SharesWord[memories[i].content][q] => C26_Found(i, q)

\* C26, amended: for as long as it is stored, a row is found by every query
\* that has at least one term, whose every term is, case aside, the
\* beginning of a word of the content, and none of whose terms is AND, OR
\* or NOT, provided no more than limit rows of the owner are matched.
C26_FoundByPrefixTerms ==
    \A i \in DOMAIN memories, q \in SearchedTexts :
        ( /\ C26_TermsArePrefixes[memories[i].content][q]
          /\ Cardinality({j \in DOMAIN memories :
                 /\ memories[j].chat_id = memories[i].chat_id
                 /\ C26_TermsArePrefixes[memories[j].content][q]})
                <= FtsLimit )
        => C26_Found(i, q)

\* the row "What's the weather tomorrow?" is found by 'weath tom' and not
\* by its own text
C26_Witness ==
    \E i \in DOMAIN memories :
        /\ memories[i].content = MsgWeather
        /\ C26_Found(i, QueryWeath)
        /\ SearchMemories(memories[i].chat_id, MsgWeather, FtsLimit)
              = {<< >>}

\* the id was given to a row and the row is no longer stored
C27_Gone(i) == i <= seq /\ i \notin DOMAIN memories

\* the ids the readers may hand back in the current state
C27_Readable ==
    UNION {SeqRange(rows) :
             rows \in UNION {
                UNION {SearchMemories(c, q, FtsLimit) : q \in SearchQueries}
                \cup GetRecentMemories(c, RecentLimit)
                \cup GetMemoriesForDisplay(c, DisplayLimit)
                \cup UNION {{x.ids : x \in Combined(c, q)} : q \in Queries}
                : c \in ChatIds}}

\* C27: a row that a sweep has deleted stays deleted: its id is given to no
\* later row, the index has no entry for it, and no searchMemories,
\* getRecentMemories, getMemoriesForDisplay or buildMemoryContext, of any
\* owner and for any query, hands it back.
C27_DeletedStaysGone ==
    /\ [][\A i \in Ids : C27_Gone(i) => C27_Gone(i)']_vars
    /\ [](\A i \in Ids :
             C27_Gone(i) =>
                 /\ i \notin DOMAIN memories_fts
                 /\ i \notin C27_Readable)

\* the sweep has just deleted row 1 of two, and the readers hand row 2 back
C27_Witness ==
    /\ ret.op = "decayMemories"
    /\ ret.n2 = 1
    /\ seq = 2
    /\ DOMAIN memories = {2}
    /\ C27_Readable = {2}

\* the rows stored before and after a step
C28_Kept == DOMAIN memories \cap DOMAIN memories'

\* the step is the composer touching the rows it selected
C28_TouchStep ==
    /\ turn.pc = "context"
    /\ ret'.op = "buildMemoryContext"
    /\ ops' = ops + 1

\* the step is a sweep
C28_DecayStep ==
    /\ ret'.op = "decayMemories"
    /\ ops' = ops + 1

\* C28: in every step of the bot the salience of a stored row stays as it
\* is, unless the step is the composer touching the row, which does not
\* lower it, or a sweep decaying the row, which does not raise it; saving a
\* turn, the /memory listing, the session commands and the deletion of
\* other rows change no salience.
C28_SalienceOnlyTouchOrDecay ==
    [][\A i \in C28_Kept :
          /\ memories'[i].salience # memories[i].salience =>
                \/ C28_TouchStep /\ i \in SeqRange(ret'.ids)
                \/ C28_DecayStep /\ memories[i].created_at < now - GraceWindow
          /\ C28_TouchStep => memories'[i].salience >= memories[i].salience
          /\ C28_DecayStep => memories'[i].salience <= memories[i].salience
      ]_vars

\* a turn was saved beside a row that the composer had touched and a sweep
\* had decayed: the row is where those two left it
C28_Witness ==
    /\ ret.op = "saveConversationTurn"
    /\ ret.n1 >= 1
    /\ ops = 2
    /\ 1 \in DOMAIN memories
    /\ memories[1].salience =
          ((InitialSalience + 4 * TouchBoost) * MEMORY_DECAY_RATE + 50)
             \div 100

\* C29 as claimed: a row leaves the store only in a sweep, and only if the
\* decay pass of that sweep left its salience below the floor.
C29_OnlySweepDeletes ==
    [][\A i \in DOMAIN memories \ DOMAIN memories' :
          /\ C28_DecayStep
          /\ AfterDecayPass(memories[i], ret'.rate, now) < ret'.min]_vars

\* C29, amended: a row leaves the store only in a sweep whose decay pass
\* left its salience below the floor, or in a call of deleteAllMemories for
\* its owner, whatever its salience; /newchat and /forget delete rows of
\* table sessions only, and no other operation deletes a memory.
C29_SweepOrDeleteAll ==
    [][\A i \in DOMAIN memories \ DOMAIN memories' :
          \/ /\ C28_DecayStep
             /\ AfterDecayPass(memories[i], ret'.rate, now) < ret'.min
          \/ /\ ret'.op = "deleteAllMemories"
             /\ ret'.chat = memories[i].chat_id]_vars

\* deleteAllMemories has emptied a store of two rows that no sweep ever
\* ran on, and the owner has then cleared the session
C29_Witness ==
    /\ ret.op = "clearSession"
    /\ ops = 0
    /\ seq = 2
    /\ memories = << >>
    /\ sessions = {}
    /\ proc = NoProc
    /\ tasks = NoTasks
    /\ turn.pc = "done"

\* C30: the created_at of a stored row never changes; its accessed_at
\* changes only when the composer touches it, and then to the time of the
\* touch; a sweep leaves accessed_at as it is, and the rows that survive it
\* come in the order of recency they had.
C30_TimestampsFrame ==
    [][/\ \A i \in C28_Kept :
            /\ memories'[i].created_at = memories[i].created_at
            /\ memories'[i].accessed_at # memories[i].accessed_at =>
                  C28_TouchStep /\ i \in SeqRange(ret'.ids)
            /\ (C28_TouchStep /\ i \in SeqRange(ret'.ids)) =>
                  memories'[i].accessed_at = now
       /\ C28_DecayStep =>
            \A c \in ChatIds :
                GetRecentMemories(c, RecentLimit)' =
                   {SelectSeq(p, LAMBDA i : i \in DOMAIN memories') :
                       p \in GetRecentMemories(c, RecentLimit)}
      ]_vars

\* a sweep has decayed a row that the composer had touched two grace
\* windows after it was created
C30_Witness ==
    /\ ret.op = "decayMemories"
    /\ ret.n1 >= 1
    /\ \E i \in DOMAIN memories :
          /\ memories[i].created_at = 0
          /\ memories[i].accessed_at = GraceWindow + TickStep
          /\ memories[i].salience < InitialSalience + 4 * TouchBoost

\* ---------------------------------------------------- claims C31..C38
\* a step in which a decay sweep ran
C31_SweepStep == proc'.sweeps = proc.sweeps + 1

\* C31: a decay sweep runs once at process start, after initDatabase and
\* before the bot handles a turn; after that one sweep runs for each tick of
\* the 24 h interval, for as long as main awaits bot.start.
C31_SweepAtStartAndPerTick ==
    /\ [][C31_SweepStep => proc.db = "open"]_vars
    /\ []((proc.bot = "polling" \/ turn.pc # "idle") => proc.sweeps >= 1)
    /\ [](proc.pc \in {"timer", "bot", "scheduler", "signals", "start"} =>
            proc.sweeps = 1)
    /\ [](proc.timer =>
            proc.sweeps = 1 + proc.ticks - (IF proc.pending THEN 1 ELSE 0))
    /\ [][proc'.sweeps \in {proc.sweeps, proc.sweeps + 1}]_vars
    /\ ((proc.pending /\ proc.pc = "running") ~>
            (~proc.pending \/ proc.pc # "running"))

\* the bot has handled a turn and the timer has fired twice: three sweeps
C31_Witness ==
    /\ proc.pc = "running"
    /\ turn.pc = "done"
    /\ proc.ticks = 2
    /\ proc.sweeps = 3
    /\ ret.op = "runDecaySweep"

\* the rows a step has inserted
C32_Inserted == DOMAIN memories' \ DOMAIN memories

\* C32: in every handled turn buildMemoryContext has run when runAgent is
\* awaited, and saveConversationTurn runs only after runAgent returned, and
\* only with a reply text: rows are inserted by that step alone, they hold
\* the turn's utterance or reply, and none of them is among the rows the
\* turn's context was built from.
C32_ContextBeforeRecord ==
    /\ [](turn.pc \in {"agent", "save"} =>
            /\ ret.op = "buildMemoryContext"
            /\ ret.chat = turn.chat
            /\ turn.ctx = ret.out
            /\ SeqRange(ret.ids) \subseteq 1..seq)
    /\ [][(seq' # seq \/ C32_Inserted # {}) =>
            /\ turn.pc = "save"
            /\ turn'.pc = "reply"
            /\ turn.text # << >>
            /\ ret'.op = "saveConversationTurn"
            /\ C32_Inserted = (seq + 1)..seq'
            /\ C32_Inserted \cap SeqRange(ret.ids) = {}
            /\ \A i \in C32_Inserted :
                  /\ memories'[i].content \in {turn.msg, turn.text}
                  /\ memories'[i].chat_id = turn.chat]_vars

\* a turn whose context held a row has recorded its utterance
C32_Witness ==
    /\ turn.pc = "reply"
    /\ turn.ctx # << >>
    /\ ret.op = "saveConversationTurn"
    /\ ret.n1 >= 1
    /\ memories[seq].content = turn.msg

\* C33: the /memory view, getMemoriesForDisplay, changes nothing in the
\* store (no salience, accessed_at or content, no row deleted or inserted,
\* the index as it was) and returns only rows of the requesting owner, as
\* they are stored.
C33_DisplayReadOnly ==
    /\ [][ret'.op = "getMemoriesForDisplay" =>
            /\ memories' = memories
            /\ memories_fts' = memories_fts
            /\ seq' = seq
            /\ ops' = ops]_vars
    /\ [](ret.op = "getMemoriesForDisplay" =>
            /\ OwnedBy(ret.ids, ret.chat)
            /\ Len(ret.ids) <= DisplayLimit
            /\ ret.out = RowsRead(ret.ids))

\* /memory has listed a row of its owner while the other owner has one too
C33_Witness ==
    /\ ret.op = "getMemoriesForDisplay"
    /\ ret.ids # << >>
    /\ \E j \in DOMAIN memories : memories[j].chat_id # ret.chat

\* the stored rows that are not older than the grace window
C34_InGrace ==
    {i \in DOMAIN memories : now - memories[i].created_at <= GraceWindow}

\* C34: for as long as a row is not older than the grace window its
\* salience is at least 1.0, and a decay sweep with minSalience <= 1.0
\* neither deletes it nor changes it.
C34_GraceKeepsRow ==
    /\ [](\A i \in C34_InGrace : memories[i].salience >= InitialSalience)
    /\ [][(StepOf("decayMemories") /\ ret'.min <= InitialSalience) =>
            \A i \in C34_InGrace :
                /\ i \in DOMAIN memories'
                /\ memories'[i] = memories[i]]_vars

\* a sweep with floor 1.0 has deleted an old row and kept a row that was
\* inserted within the grace window and never touched
C34_Witness ==
    /\ ret.op = "decayMemories"
    /\ ret.min = InitialSalience
    /\ ret.n2 >= 1
    /\ \E i \in C34_InGrace : memories[i].salience = InitialSalience

\* C35: touchMemory(id) for an id that was given and whose row is deleted
\* changes no row and no index entry and recreates nothing; every id ever
\* given is at most the AUTOINCREMENT counter, the counter never goes down,
\* and an insert gets ids above it, so an id is given once.
C35_TouchOfDeletedAndFreshIds ==
    /\ [][(StepOf("touchMemory") /\ ret'.id \notin DOMAIN memories) =>
            /\ memories' = memories
            /\ memories_fts' = memories_fts
            /\ seq' = seq]_vars
    /\ [](DOMAIN memories \subseteq 1..seq)
    /\ [][/\ seq' >= seq
          /\ \A i \in DOMAIN memories' \ DOMAIN memories :
                i > seq /\ i <= seq']_vars

\* touchMemory was called for the id of a deleted row while a row that
\* was inserted later is stored
C35_Witness ==
    /\ ret.op = "touchMemory"
    /\ ret.id \notin DOMAIN memories
    /\ \E j \in DOMAIN memories : j > ret.id

\* shutdown has begun and has not been cut short by a second signal
C36_Graceful == proc.shuttingDown /\ proc.exit # 1

\* C36: on a graceful shutdown the decay timer and the scheduler poll are
\* cancelled before the bot is stopped and the database is closed; the lock
\* is released after the database is closed; no decay sweep starts once the
\* database is closed; a signal that arrives during shutdown exits the
\* process at once with code 1, the database and the lock left as they are.
C36_ShutdownOrder ==
    /\ []((C36_Graceful /\ (proc.bot = "stopped" \/ proc.db = "closed")) =>
            (~proc.timer /\ ~proc.pending /\ ~proc.poll))
    /\ []((C36_Graceful /\ proc.db = "closed") => proc.bot = "stopped")
    /\ []((C36_Graceful /\ ~proc.lock) => proc.db = "closed")
    /\ []((C36_Graceful /\ proc.pc = "exited") =>
            (proc.exit = 0 /\ ~proc.lock /\ proc.db = "closed"))
    /\ [][proc.db = "closed" =>
            (proc'.sweeps = proc.sweeps /\ memories' = memories)]_vars
    /\ [][(proc.shuttingDown /\ proc'.exit = 1) =>
            /\ proc.pc = "stopping"
            /\ proc' = Exited(1)
            /\ UNCHANGED << storeVars, turn, sessions >>]_vars

\* the process has left through process.exit(0) after a tick of the decay
\* timer was due and was cancelled by shutdown
C36_Witness ==
    /\ proc.pc = "exited"
    /\ proc.exit = 0
    /\ proc.ticks = proc.sweeps

\* the stored tasks whose schedule parses
C37_ValidTasks == {t \in DOMAIN tasks : tasks[t].schedule = CronValid}

\* C37: a task whose cron expression is valid goes to 'disabled' only in a
\* step that is a failed run and that brings its fail_count to 3 or more;
\* a failed run adds one to fail_count and sets next_run to the schedule's
\* next time after now, and disables the task exactly when fail_count has
\* reached 3; a successful run sets fail_count to 0 and leaves the status.
C37_ThreeStrikes ==
    /\ [][\A t \in C37_ValidTasks \cap DOMAIN tasks' :
            (tasks[t].status # "disabled" /\ tasks'[t].status = "disabled")
            => /\ SchedRunFails(t)
               /\ tasks'[t].fail_count >= THREE_STRIKE_LIMIT]_vars
    /\ [][\A t \in C37_ValidTasks :
            SchedRunFails(t) =>
               /\ tasks'[t].fail_count = tasks[t].fail_count + 1
               /\ tasks'[t].next_run = ComputeNextRun(CronValid)
               /\ tasks'[t].next_run > now
               /\ tasks'[t].status =
                     IF tasks'[t].fail_count >= THREE_STRIKE_LIMIT
                     THEN "disabled" ELSE tasks[t].status]_vars
    /\ [][\A t \in C37_ValidTasks :
            SchedRunSucceeds(t) =>
               /\ tasks'[t].fail_count = 0
               /\ tasks'[t].next_run > now
               /\ tasks'[t].status = tasks[t].status]_vars

\* a task with a valid schedule was disabled by its third failed run, on
\* its third due time
C37_Witness ==
    \E t \in C37_ValidTasks :
        /\ tasks[t].status = "disabled"
        /\ tasks[t].fail_count = THREE_STRIKE_LIMIT
        /\ tasks[t].last_run = GraceWindow + 3 * CronPeriod
        /\ proc.runs[t] = 0

\* the chat passes the configured allow-list
C38_Allowed(chatId) == proc.allowed = {} \/ chatId \in proc.allowed

\* C38: a turn that is past the head of handleMessage is a turn of an
\* authorised chat; every call on the store (buildMemoryContext,
\* saveConversationTurn, getMemoriesForDisplay, clearSession) and every row
\* written is for an authorised chat; a message of a chat that is not
\* authorised ends at the check, with the store and the sessions as they
\* were and without a reply (/chatid, which has no check, is answered).
C38_AuthBeforeMemory ==
    /\ [](turn.pc \notin {"idle", "done"} => C38_Allowed(turn.chat))
    /\ [][ret' # ret => C38_Allowed(ret'.chat)]_vars
    /\ [][\A i \in DOMAIN memories' :
            (i \notin DOMAIN memories \/ memories'[i] # memories[i]) =>
                C38_Allowed(memories'[i].chat_id)]_vars
    /\ [][(turn' # turn /\ ~C38_Allowed(turn'.chat)) =>
            /\ UNCHANGED << storeVars, sessions >>
            /\ turn'.pc \in {"idle", "done"}]_vars
    /\ []((turn.replied /\ ~C38_Allowed(turn.chat)) => turn.msg = MsgChatId)

\* a message of a chat that is not on the allow-list was dropped, and that
\* chat has a row in the store
C38_Witness ==
    /\ turn.pc = "done"
    /\ turn.msg = MsgPrefer
    /\ ~turn.replied
    /\ ~C38_Allowed(turn.chat)
    /\ \E i \in DOMAIN memories : memories[i].chat_id = turn.chat

====
